---- MODULE Spec2Model ----
(***************************************************************************)
(* Model of the electricity-trading client                                 *)
(* (frequenz.client.electricity_trading._client.Client and the value types *)
(* of _types.py that it uses as stream keys).                              *)
(*                                                                         *)
(* Client keeps three dicts, one per kind of stream, that map a stream key *)
(* to a GrpcStreamingHelper.  The three stream_* coroutines look the key   *)
(* up, construct a helper when it is absent and return new_receiver() of   *)
(* the registered helper.  GrpcStreamingHelper and the receivers it hands  *)
(* out come from frequenz.client.base / frequenz.channels; their behaviour *)
(* (pump, fan-out, detach, termination) is modelled from the design        *)
(* document and marked as such in the comments below.                      *)
(*                                                                         *)
(* Optional values are modelled as sequences of length at most one:        *)
(* None is << >> and a present value v is << v >>.                         *)
(***************************************************************************)
EXTENDS Integers, Sequences, FiniteSets, TLC

VARIABLES
    gridpool_orders_streams,  \* Client._gridpool_orders_streams: set of [key, helper]
    gridpool_trades_streams,  \* Client._gridpool_trades_streams
    public_trades_streams,    \* Client._public_trades_streams
    helpers,                  \* every GrpcStreamingHelper constructed so far
    receivers,                \* every receiver handed out by new_receiver()
    calls,                    \* the stream_* coroutines issued on the client
    rpcs,                     \* the update_gridpool_order coroutines issued
    stub,                     \* the requests the unary methods of the stub were called with
    conv                      \* a value of _types.py and the conversions applied to it

vars == <<gridpool_orders_streams, gridpool_trades_streams,
          public_trades_streams, helpers, receivers, calls, rpcs, stub, conv>>

----------------------------------------------------------------------------
(* Bounds of the exploration *)

MaxCalls == 2   \* stream_* coroutines issued on one client
MaxItems == 3   \* responses the upstream streams produce, in all
MaxKeyItems == 1  \* the same, where the calls range over every key
MaxGiven == 2   \* parameters given in one update_gridpool_order call
MaxConversions == 2  \* from_pb and to_pb calls made on one value
MaxRpcs == 2    \* one-shot coroutines issued on one client
MaxListItems == 2  \* items in the response of a list_* call

----------------------------------------------------------------------------
(* Optional values *)

None == << >>

Some(v) == << v >>

----------------------------------------------------------------------------
(* _types.py: enumerations used by the stream keys and the stream items *)

\* DeliveryDuration wire codes (delivery_duration_pb2.DeliveryDuration)
DeliveryDurationMembers ==
    [c \in 0..4 |-> CASE c = 0 -> "UNSPECIFIED"
                      [] c = 1 -> "MINUTES_5"
                      [] c = 2 -> "MINUTES_15"
                      [] c = 3 -> "MINUTES_30"
                      [] c = 4 -> "MINUTES_60"]

\* DeliveryDuration.from_pb: unknown codes come back as UNSPECIFIED
DeliveryDuration_from_pb(code) ==
    IF code \notin DOMAIN DeliveryDurationMembers
    THEN "UNSPECIFIED"
    ELSE DeliveryDurationMembers[code]

\* OrderState wire codes (electricity_trading_pb2.OrderState)
OrderStateMembers ==
    [c \in 0..9 |-> CASE c = 0 -> "UNSPECIFIED"
                      [] c = 1 -> "PENDING"
                      [] c = 2 -> "ACTIVE"
                      [] c = 3 -> "FILLED"
                      [] c = 4 -> "CANCELED"
                      [] c = 5 -> "CANCEL_REQUESTED"
                      [] c = 6 -> "CANCEL_REJECTED"
                      [] c = 7 -> "EXPIRED"
                      [] c = 8 -> "FAILED"
                      [] c = 9 -> "HIBERNATE"]

\* OrderState.from_pb
OrderState_from_pb(code) ==
    IF code \notin DOMAIN OrderStateMembers
    THEN "UNSPECIFIED"
    ELSE OrderStateMembers[code]

\* TradeState wire codes (electricity_trading_pb2.TradeState)
TradeStateMembers ==
    [c \in 0..8 |-> CASE c = 0 -> "UNSPECIFIED"
                      [] c = 1 -> "ACTIVE"
                      [] c = 2 -> "CANCEL_REQUESTED"
                      [] c = 3 -> "CANCEL_REJECTED"
                      [] c = 4 -> "CANCELED"
                      [] c = 5 -> "RECALL"
                      [] c = 6 -> "RECALL_REQUESTED"
                      [] c = 7 -> "RECALL_REJECTED"
                      [] c = 8 -> "APPROVAL_REQUESTED"]

\* TradeState.from_pb
TradeState_from_pb(code) ==
    IF code \notin DOMAIN TradeStateMembers
    THEN "UNSPECIFIED"
    ELSE TradeStateMembers[code]

\* DeliveryDuration.to_pb: the value of the member
DeliveryDuration_to_pb(member) ==
    CHOOSE c \in DOMAIN DeliveryDurationMembers : DeliveryDurationMembers[c] = member

\* OrderState.to_pb: the value of the member
OrderState_to_pb(member) ==
    CHOOSE c \in DOMAIN OrderStateMembers : OrderStateMembers[c] = member

\* A TradeState.to_pb that would number the members from one
TradeState_to_pb_shifted(member) ==
    (CHOOSE c \in DOMAIN TradeStateMembers : TradeStateMembers[c] = member) + 1

\* TradeState.to_pb: the value of the member
TradeState_to_pb(member) ==
    CHOOSE c \in DOMAIN TradeStateMembers : TradeStateMembers[c] = member

\* Currency wire codes (price_pb2.Price.Currency)
CurrencyMembers ==
    [c \in 0..10 |-> CASE c = 0 -> "UNSPECIFIED"
                       [] c = 1 -> "USD"
                       [] c = 2 -> "CAD"
                       [] c = 3 -> "EUR"
                       [] c = 4 -> "GBP"
                       [] c = 5 -> "CHF"
                       [] c = 6 -> "CNY"
                       [] c = 7 -> "JPY"
                       [] c = 8 -> "AUD"
                       [] c = 9 -> "NZD"
                       [] c = 10 -> "SGD"]

\* A Currency.from_pb without the membership test: cls(currency) raises
\* ValueError for a code that is no member
Currency_from_pb_strict(code) ==
    IF code \notin DOMAIN CurrencyMembers
    THEN "ValueError"
    ELSE CurrencyMembers[code]

\* Currency.from_pb
Currency_from_pb(code) ==
    IF code \notin DOMAIN CurrencyMembers
    THEN "UNSPECIFIED"
    ELSE CurrencyMembers[code]

\* Currency.to_pb: the value of the member
Currency_to_pb(member) ==
    CHOOSE c \in DOMAIN CurrencyMembers : CurrencyMembers[c] = member

\* EnergyMarketCodeType wire codes (delivery_area_pb2.EnergyMarketCodeType)
EnergyMarketCodeTypeMembers ==
    [c \in 0..2 |-> CASE c = 0 -> "UNSPECIFIED"
                      [] c = 1 -> "EUROPE_EIC"
                      [] c = 2 -> "US_NERC"]

\* EnergyMarketCodeType.from_pb
EnergyMarketCodeType_from_pb(code) ==
    IF code \notin DOMAIN EnergyMarketCodeTypeMembers
    THEN "UNSPECIFIED"
    ELSE EnergyMarketCodeTypeMembers[code]

\* EnergyMarketCodeType.to_pb: the value of the member
EnergyMarketCodeType_to_pb(member) ==
    CHOOSE c \in DOMAIN EnergyMarketCodeTypeMembers : EnergyMarketCodeTypeMembers[c] = member

\* OrderExecutionOption wire codes (electricity_trading_pb2.OrderExecutionOption)
OrderExecutionOptionMembers ==
    [c \in 0..4 |-> CASE c = 0 -> "UNSPECIFIED"
                      [] c = 1 -> "NONE"
                      [] c = 2 -> "AON"
                      [] c = 3 -> "FOK"
                      [] c = 4 -> "IOC"]

\* OrderExecutionOption.from_pb
OrderExecutionOption_from_pb(code) ==
    IF code \notin DOMAIN OrderExecutionOptionMembers
    THEN "UNSPECIFIED"
    ELSE OrderExecutionOptionMembers[code]

\* OrderExecutionOption.to_pb: the value of the member
OrderExecutionOption_to_pb(member) ==
    CHOOSE c \in DOMAIN OrderExecutionOptionMembers : OrderExecutionOptionMembers[c] = member

\* OrderType wire codes (electricity_trading_pb2.OrderType)
OrderTypeMembers ==
    [c \in 0..7 |-> CASE c = 0 -> "UNSPECIFIED"
                      [] c = 1 -> "LIMIT"
                      [] c = 2 -> "STOP_LIMIT"
                      [] c = 3 -> "ICEBERG"
                      [] c = 4 -> "BLOCK"
                      [] c = 5 -> "BALANCE"
                      [] c = 6 -> "PREARRANGED"
                      [] c = 7 -> "PRIVATE"]

\* OrderType.from_pb
OrderType_from_pb(code) ==
    IF code \notin DOMAIN OrderTypeMembers
    THEN "UNSPECIFIED"
    ELSE OrderTypeMembers[code]

\* OrderType.to_pb: the value of the member
OrderType_to_pb(member) ==
    CHOOSE c \in DOMAIN OrderTypeMembers : OrderTypeMembers[c] = member

\* MarketSide wire codes (electricity_trading_pb2.MarketSide)
MarketSideMembers ==
    [c \in 0..2 |-> CASE c = 0 -> "UNSPECIFIED"
                      [] c = 1 -> "BUY"
                      [] c = 2 -> "SELL"]

\* A MarketSide.from_pb without the membership test
MarketSide_from_pb_strict(code) ==
    IF code \notin DOMAIN MarketSideMembers
    THEN "ValueError"
    ELSE MarketSideMembers[code]

\* MarketSide.from_pb
MarketSide_from_pb(code) ==
    IF code \notin DOMAIN MarketSideMembers
    THEN "UNSPECIFIED"
    ELSE MarketSideMembers[code]

\* MarketSide.to_pb: the value of the member
MarketSide_to_pb(member) ==
    CHOOSE c \in DOMAIN MarketSideMembers : MarketSideMembers[c] = member

\* StateReason wire codes (electricity_trading_pb2.OrderDetail.StateDetail.StateReason)
StateReasonMembers ==
    [c \in 0..13 |-> CASE c = 0 -> "UNSPECIFIED"
                       [] c = 1 -> "ADD"
                       [] c = 2 -> "MODIFY"
                       [] c = 3 -> "DELETE"
                       [] c = 4 -> "DEACTIVATE"
                       [] c = 5 -> "REJECT"
                       [] c = 6 -> "FULL_EXECUTION"
                       [] c = 7 -> "PARTIAL_EXECUTION"
                       [] c = 8 -> "ICEBERG_SLICE_ADD"
                       [] c = 9 -> "VALIDATION_FAIL"
                       [] c = 10 -> "UNKNOWN_STATE"
                       [] c = 11 -> "QUOTE_ADD"
                       [] c = 12 -> "QUOTE_FULL_EXECUTION"
                       [] c = 13 -> "QUOTE_PARTIAL_EXECUTION"]

\* StateReason.from_pb
StateReason_from_pb(code) ==
    IF code \notin DOMAIN StateReasonMembers
    THEN "UNSPECIFIED"
    ELSE StateReasonMembers[code]

\* StateReason.to_pb: the value of the member
StateReason_to_pb(member) ==
    CHOOSE c \in DOMAIN StateReasonMembers : StateReasonMembers[c] = member

\* MarketActor wire codes (electricity_trading_pb2.OrderDetail.StateDetail.MarketActor)
MarketActorMembers ==
    [c \in 0..3 |-> CASE c = 0 -> "UNSPECIFIED"
                      [] c = 1 -> "USER"
                      [] c = 2 -> "MARKET_OPERATOR"
                      [] c = 3 -> "SYSTEM"]

\* MarketActor.from_pb
MarketActor_from_pb(code) ==
    IF code \notin DOMAIN MarketActorMembers
    THEN "UNSPECIFIED"
    ELSE MarketActorMembers[code]

\* MarketActor.to_pb: the value of the member
MarketActor_to_pb(member) ==
    CHOOSE c \in DOMAIN MarketActorMembers : MarketActorMembers[c] = member

----------------------------------------------------------------------------
(* datetime and google.protobuf.Timestamp *)

\* A datetime is its wall-clock reading t (in hours) and its tzinfo: None for
\* a naive datetime, Some(offset) for an aware one (offset in hours, 0 = UTC).
datetime(t, tzinfo) == [t |-> t, tzinfo |-> tzinfo]

\* datetime.__eq__: a naive and an aware datetime are never equal; two aware
\* ones are equal when they are the same instant.
datetimeEq(a, b) ==
    /\ Len(a.tzinfo) = Len(b.tzinfo)
    /\ IF a.tzinfo = None
       THEN a.t = b.t
       ELSE a.t - a.tzinfo[1] = b.t - b.tzinfo[1]

\* Timestamp.FromDatetime(dt): the instant of dt, a naive dt read as UTC.
\* The method fills the Timestamp it is called on and returns None.
FromDatetime(dt) ==
    IF dt.tzinfo = None THEN dt.t ELSE dt.t - dt.tzinfo[1]

\* Timestamp.ToDatetime(): a naive datetime holding the UTC reading
ToDatetime(timestamp) == datetime(timestamp, None)

----------------------------------------------------------------------------
(* _types.py: DeliveryPeriod *)

\* The exception a constructor or from_pb raises
ValueError == [error |-> "ValueError"]

\* A constructor that would take any duration, as the next longer of the
\* four durations
DeliveryPeriodAnyDuration(oid, start, minutes) ==
    [oid |-> oid, start |-> start,
     duration |-> CASE minutes <= 5  -> "MINUTES_5"
                    [] minutes > 5 /\ minutes <= 15  -> "MINUTES_15"
                    [] minutes > 15 /\ minutes <= 30 -> "MINUTES_30"
                    [] OTHER -> "MINUTES_60"]

\* DeliveryPeriod.__init__ : minutes is duration.total_seconds() / 60.
\* oid is the identity of the constructed object.
DeliveryPeriod(oid, start, minutes) ==
    CASE minutes = 5  -> [oid |-> oid, start |-> start, duration |-> "MINUTES_5"]
      [] minutes = 15 -> [oid |-> oid, start |-> start, duration |-> "MINUTES_15"]
      [] minutes = 30 -> [oid |-> oid, start |-> start, duration |-> "MINUTES_30"]
      [] minutes = 60 -> [oid |-> oid, start |-> start, duration |-> "MINUTES_60"]
      [] OTHER        -> ValueError

\* A decoding that would accept every duration code and keep the member it
\* decodes to
DeliveryPeriod_from_pb_lenient(oid, delivery_period) ==
    [oid      |-> oid,
     start    |-> ToDatetime(delivery_period.start),
     duration |-> DeliveryDuration_from_pb(delivery_period.duration)]

\* DeliveryPeriod.from_pb
DeliveryPeriod_from_pb(oid, delivery_period) ==
    LET start == ToDatetime(delivery_period.start)
        delivery_duration_enum == DeliveryDuration_from_pb(delivery_period.duration)
    IN  CASE delivery_duration_enum = "MINUTES_5" ->
               DeliveryPeriod(oid, start, 5)
          [] delivery_duration_enum = "MINUTES_15" ->
               DeliveryPeriod(oid, start, 15)
          [] delivery_duration_enum = "MINUTES_30" ->
               DeliveryPeriod(oid, start, 30)
          [] delivery_duration_enum = "MINUTES_60" ->
               DeliveryPeriod(oid, start, 60)
          [] OTHER -> ValueError

\* DeliveryPeriod.to_pb
DeliveryPeriod_to_pb(p) ==
    [start    |-> FromDatetime(p.start),
     duration |-> DeliveryDuration_to_pb(p.duration)]

\* DeliveryPeriod defines neither __eq__ nor __hash__ and is not a dataclass:
\* two periods are equal exactly when they are the same object.
DeliveryPeriodEq(p, q) == p.oid = q.oid

\* Equality of two optional delivery periods, as the dataclass __eq__ of a
\* filter compares the field.
OptDeliveryPeriodEq(a, b) ==
    /\ Len(a) = Len(b)
    /\ (Len(a) = 1 => DeliveryPeriodEq(a[1], b[1]))

----------------------------------------------------------------------------
(* _types.py: DeliveryArea and the three filters (frozen dataclasses) *)

\* DeliveryArea(code, code_type): a frozen dataclass of a str and an enum,
\* compared and hashed field by field.
DeliveryArea(code, code_type) == [code |-> code, code_type |-> code_type]

\* GridpoolOrderFilter(...)
GridpoolOrderFilter(order_states, side, delivery_period, delivery_area, tag) ==
    [order_states    |-> order_states,
     side            |-> side,
     delivery_period |-> delivery_period,
     delivery_area   |-> delivery_area,
     tag             |-> tag]

\* GridpoolTradeFilter(...)
GridpoolTradeFilter(trade_states, trade_id_lists, side, delivery_period, delivery_area) ==
    [trade_states    |-> trade_states,
     trade_id_lists  |-> trade_id_lists,
     side            |-> side,
     delivery_period |-> delivery_period,
     delivery_area   |-> delivery_area]

\* PublicTradeFilter(...)
PublicTradeFilter(states, delivery_period, buy_delivery_area, sell_delivery_area) ==
    [states             |-> states,
     delivery_period    |-> delivery_period,
     buy_delivery_area  |-> buy_delivery_area,
     sell_delivery_area |-> sell_delivery_area]

\* A bug the dataclass equality could have had: the tag left out of the
\* comparison (compare=False on the last field).
GridpoolOrderFilterEqNoTag(a, b) ==
    /\ a.order_states = b.order_states
    /\ a.side = b.side
    /\ OptDeliveryPeriodEq(a.delivery_period, b.delivery_period)
    /\ a.delivery_area = b.delivery_area

\* GridpoolOrderFilter.__eq__ as @dataclass generates it: the tuples of the
\* fields are compared, each field with its own ==.
GridpoolOrderFilterEq(a, b) ==
    /\ a.order_states = b.order_states
    /\ a.side = b.side
    /\ OptDeliveryPeriodEq(a.delivery_period, b.delivery_period)
    /\ a.delivery_area = b.delivery_area
    /\ a.tag = b.tag

\* GridpoolTradeFilter.__eq__
GridpoolTradeFilterEq(a, b) ==
    /\ a.trade_states = b.trade_states
    /\ a.trade_id_lists = b.trade_id_lists
    /\ a.side = b.side
    /\ OptDeliveryPeriodEq(a.delivery_period, b.delivery_period)
    /\ a.delivery_area = b.delivery_area

\* PublicTradeFilter.__eq__
PublicTradeFilterEq(a, b) ==
    /\ a.states = b.states
    /\ OptDeliveryPeriodEq(a.delivery_period, b.delivery_period)
    /\ a.buy_delivery_area = b.buy_delivery_area
    /\ a.sell_delivery_area = b.sell_delivery_area

\* GridpoolOrderFilter.__hash__ as @dataclass(frozen=True) generates it:
\* hash of the tuple of the fields.  A list has no hash (TypeError); None, an
\* enum member, a str, a DeliveryArea and a DeliveryPeriod (object hash) do.
GridpoolOrderFilterHashable(f) == f.order_states = None

\* GridpoolTradeFilter.__hash__
GridpoolTradeFilterHashable(f) ==
    /\ f.trade_states = None
    /\ f.trade_id_lists = None

\* PublicTradeFilter.__hash__
PublicTradeFilterHashable(f) == f.states = None

----------------------------------------------------------------------------
(* _types.py: Price, Energy and UpdateOrder *)

\* decimal.Decimal: coef * 10^exp, a finite number
Decimal(coef, exp) == [coef |-> coef, exp |-> exp]

RECURSIVE Pow10(_)
Pow10(n) == IF n = 0 THEN 1 ELSE 10 * Pow10(n - 1)

\* Decimal.__eq__: numeric, whatever the exponents
DecimalEq(a, b) ==
    LET e == IF a.exp < b.exp THEN a.exp ELSE b.exp
    IN  a.coef * Pow10(a.exp - e) = b.coef * Pow10(b.exp - e)

\* str(Decimal): the text of the number, digits and exponent kept
Decimal_str(d) == <<d.coef, d.exp>>

\* Decimal(str)
Decimal_parse(text) == Decimal(text[1], text[2])

\* Price(amount, currency)
Price(amount, currency) == [amount |-> amount, currency |-> currency]

\* Price.from_pb
Price_from_pb(price) ==
    Price(Decimal_parse(price.amount.value), Currency_from_pb(price.currency))

\* Price.to_pb
Price_to_pb(self) ==
    [amount |-> [value |-> Decimal_str(self.amount)],
     currency |-> Currency_to_pb(self.currency)]

\* Price.__eq__ (dataclass)
PriceEq(a, b) == DecimalEq(a.amount, b.amount) /\ a.currency = b.currency

\* Energy(mwh)
Energy(mwh) == [mwh |-> mwh]

\* Energy.from_pb
Energy_from_pb(energy) == Energy(Decimal_parse(energy.mwh.value))

\* Energy.to_pb
Energy_to_pb(self) == [mwh |-> [value |-> Decimal_str(self.mwh)]]

\* Energy.__eq__ (dataclass)
EnergyEq(a, b) == DecimalEq(a.mwh, b.mwh)

\* The names of the updatable fields, in the order of the params dict of
\* update_gridpool_order and of the fields of UpdateOrder
UpdateFields ==
    <<"price", "quantity", "stop_price", "peak_price_delta",
      "display_quantity", "execution_option", "valid_until", "payload", "tag">>

\* UpdateOrder(...): every field a value or None
UpdateOrder(price, quantity, stop_price, peak_price_delta, display_quantity, execution_option, valid_until, payload, tag) ==
    [price            |-> price,
     quantity         |-> quantity,
     stop_price       |-> stop_price,
     peak_price_delta |-> peak_price_delta,
     display_quantity |-> display_quantity,
     execution_option |-> execution_option,
     valid_until      |-> valid_until,
     payload          |-> payload,
     tag              |-> tag]

\* bool(x) of an optional field of UpdateOrder, as `x if self.x else None`
\* tests it: None is false, an empty str and an empty dict are false, a
\* dataclass instance, an enum member and a datetime are true.
Truthy(field, x) ==
    /\ x # None
    /\ (field = "tag" => x[1] # "")
    /\ (field = "payload" => x[1] # {})

\* UpdateOrder.to_pb: a field that tests false is passed as None, which
\* leaves it unset in the message.
UpdateOrder_to_pb(self) ==
    [price |->
        IF Truthy("price", self.price)
        THEN Some(Price_to_pb(self.price[1])) ELSE None,
     quantity |->
        IF Truthy("quantity", self.quantity)
        THEN Some(Energy_to_pb(self.quantity[1])) ELSE None,
     stop_price |->
        IF Truthy("stop_price", self.stop_price)
        THEN Some(Price_to_pb(self.stop_price[1])) ELSE None,
     peak_price_delta |->
        IF Truthy("peak_price_delta", self.peak_price_delta)
        THEN Some(Price_to_pb(self.peak_price_delta[1])) ELSE None,
     display_quantity |->
        IF Truthy("display_quantity", self.display_quantity)
        THEN Some(Energy_to_pb(self.display_quantity[1])) ELSE None,
     execution_option |->
        IF Truthy("execution_option", self.execution_option)
        THEN Some(OrderExecutionOption_to_pb(self.execution_option[1])) ELSE None,
     valid_until |->
        IF Truthy("valid_until", self.valid_until)
        THEN Some(FromDatetime(self.valid_until[1])) ELSE None,
     payload |->
        IF Truthy("payload", self.payload)
        THEN Some([fields |-> self.payload[1]]) ELSE None,
     tag |->
        IF Truthy("tag", self.tag)
        THEN Some(self.tag[1]) ELSE None]

----------------------------------------------------------------------------
(* _client.py: the stream keys and the three dicts *)

Kinds == {"gridpool_orders", "gridpool_trades", "public_trades"}

\* stream_key = (gridpool_id, filter) for the gridpool streams; the filter
\* itself for the public trades.
StreamKey(kind, gridpool_id, filter) ==
    IF kind = "public_trades" THEN <<filter>> ELSE <<gridpool_id, filter>>

\* Equality of two keys of the dict of `kind` (tuple equality, element-wise).
StreamKeyEq(kind, k1, k2) ==
    CASE kind = "gridpool_orders" ->
            k1[1] = k2[1] /\ GridpoolOrderFilterEq(k1[2], k2[2])
      [] kind = "gridpool_trades" ->
            k1[1] = k2[1] /\ GridpoolTradeFilterEq(k1[2], k2[2])
      [] kind = "public_trades" ->
            PublicTradeFilterEq(k1[1], k2[1])

\* hash(stream_key) succeeds
StreamKeyHashable(kind, key) ==
    CASE kind = "gridpool_orders" -> GridpoolOrderFilterHashable(key[2])
      [] kind = "gridpool_trades" -> GridpoolTradeFilterHashable(key[2])
      [] kind = "public_trades"   -> PublicTradeFilterHashable(key[1])

\* A bug the lookup could have: the membership test never finds the key.
ContainsNever(kind, streams, key) == FALSE

\* `stream_key in streams` for a hashable key
Contains(kind, streams, key) ==
    \E e \in streams : StreamKeyEq(kind, e.key, key)

\* A bug the lookup could have: any helper of the dict is returned.
GetItemAny(kind, streams, key) ==
    (CHOOSE e \in streams :
        \A o \in streams : e.helper <= o.helper).helper

\* `streams[stream_key]` for a key the dict holds
GetItem(kind, streams, key) ==
    (CHOOSE e \in streams : StreamKeyEq(kind, e.key, key)).helper

\* An assignment that would leave the new entry alone in the dict.
SetItemAlone(kind, streams, key, helper) == {[key |-> key, helper |-> helper]}

\* `streams[stream_key] = helper`: an entry with an equal key keeps its key
\* object and gets the new value; otherwise a new entry is added.
SetItem(kind, streams, key, helper) ==
    IF \E e \in streams : StreamKeyEq(kind, e.key, key)
    THEN {IF StreamKeyEq(kind, e.key, key)
          THEN [key |-> e.key, helper |-> helper]
          ELSE e : e \in streams}
    ELSE streams \cup {[key |-> key, helper |-> helper]}

----------------------------------------------------------------------------
(* The upstream streams and the per-item transforms of _client.py *)

\* Reading a Timestamp field of a message: the default Timestamp (the
\* epoch) when the field is unset.  A Timestamp message is always true.
ReadTimestamp(field) == IF field = None THEN 0 ELSE field[1]

\* Equality of two optional prices, energies and datetimes, as the
\* dataclass __eq__ of a record compares the field
OptPriceEq(a, b) ==
    /\ Len(a) = Len(b)
    /\ (Len(a) = 1 => PriceEq(a[1], b[1]))

OptEnergyEq(a, b) ==
    /\ Len(a) = Len(b)
    /\ (Len(a) = 1 => EnergyEq(a[1], b[1]))

OptDatetimeEq(a, b) ==
    /\ Len(a) = Len(b)
    /\ (Len(a) = 1 => datetimeEq(a[1], b[1]))

\* DeliveryArea.from_pb
DeliveryArea_from_pb(delivery_area) ==
    DeliveryArea(delivery_area.code,
                 EnergyMarketCodeType_from_pb(delivery_area.code_type))

\* DeliveryArea.to_pb
DeliveryArea_to_pb(self) ==
    [code |-> self.code, code_type |-> EnergyMarketCodeType_to_pb(self.code_type)]

\* json_format.MessageToDict(struct): the plain Python value of every field;
\* a field that Struct(fields=...) was given as a plain Python value holds
\* that value
MessageToDict(struct) ==
    {<<kv[1], IF "string_value" \in DOMAIN kv[2]
              THEN [py |-> kv[2].string_value] ELSE kv[2]>> : kv \in struct.fields}

\* Order.from_pb
Order_from_pb(oid, order) ==
    LET delivery_period == DeliveryPeriod_from_pb(oid, order.delivery_period)
    IN  IF delivery_period = ValueError
        THEN ValueError
        ELSE [delivery_area   |-> DeliveryArea_from_pb(order.delivery_area),
              delivery_period |-> delivery_period,
              type            |-> OrderType_from_pb(order.type),
              side            |-> MarketSide_from_pb(order.side),
              price           |-> Price_from_pb(order.price),
              quantity        |-> Energy_from_pb(order.quantity),
              stop_price |->
                 IF order.stop_price # None
                 THEN Some(Price_from_pb(order.stop_price[1])) ELSE None,
              peak_price_delta |->
                 IF order.peak_price_delta # None
                 THEN Some(Price_from_pb(order.peak_price_delta[1])) ELSE None,
              display_quantity |->
                 IF order.display_quantity # None
                 THEN Some(Energy_from_pb(order.display_quantity[1])) ELSE None,
              execution_option |->
                 IF order.execution_option # None
                 THEN Some(OrderExecutionOption_from_pb(order.execution_option[1]))
                 ELSE None,
              valid_until |-> Some(ToDatetime(ReadTimestamp(order.valid_until))),
              payload |->
                 IF order.payload # None /\ order.payload[1].fields # {}
                 THEN Some(MessageToDict(order.payload[1])) ELSE None,
              tag |->
                 IF order.tag # None /\ order.tag[1] # ""
                 THEN order.tag ELSE None]

\* Order.to_pb
Order_to_pb(self) ==
    [delivery_area   |-> DeliveryArea_to_pb(self.delivery_area),
     delivery_period |-> DeliveryPeriod_to_pb(self.delivery_period),
     type            |-> OrderType_to_pb(self.type),
     side            |-> MarketSide_to_pb(self.side),
     price           |-> Price_to_pb(self.price),
     quantity        |-> Energy_to_pb(self.quantity),
     stop_price |->
        IF Truthy("stop_price", self.stop_price)
        THEN Some(Price_to_pb(self.stop_price[1])) ELSE None,
     peak_price_delta |->
        IF Truthy("peak_price_delta", self.peak_price_delta)
        THEN Some(Price_to_pb(self.peak_price_delta[1])) ELSE None,
     display_quantity |->
        IF Truthy("display_quantity", self.display_quantity)
        THEN Some(Energy_to_pb(self.display_quantity[1])) ELSE None,
     execution_option |->
        IF Truthy("execution_option", self.execution_option)
        THEN Some(OrderExecutionOption_to_pb(self.execution_option[1])) ELSE None,
     valid_until |->
        IF Truthy("valid_until", self.valid_until)
        THEN Some(FromDatetime(self.valid_until[1])) ELSE None,
     payload |->
        IF Truthy("payload", self.payload)
        THEN Some([fields |-> self.payload[1]]) ELSE None,
     tag |->
        IF Truthy("tag", self.tag) THEN Some(self.tag[1]) ELSE None]

\* Order.__eq__ (dataclass): field by field, each with its own ==
OrderEq(a, b) ==
    /\ a.delivery_area = b.delivery_area
    /\ DeliveryPeriodEq(a.delivery_period, b.delivery_period)
    /\ a.type = b.type
    /\ a.side = b.side
    /\ PriceEq(a.price, b.price)
    /\ EnergyEq(a.quantity, b.quantity)
    /\ OptPriceEq(a.stop_price, b.stop_price)
    /\ OptPriceEq(a.peak_price_delta, b.peak_price_delta)
    /\ OptEnergyEq(a.display_quantity, b.display_quantity)
    /\ a.execution_option = b.execution_option
    /\ OptDatetimeEq(a.valid_until, b.valid_until)
    /\ a.payload = b.payload
    /\ a.tag = b.tag

\* Trade.from_pb
Trade_from_pb(oid, trade) ==
    LET delivery_period == DeliveryPeriod_from_pb(oid, trade.delivery_period)
    IN  IF delivery_period = ValueError
        THEN ValueError
        ELSE [id              |-> trade.id,
              order_id        |-> trade.order_id,
              side            |-> MarketSide_from_pb(trade.side),
              delivery_area   |-> DeliveryArea_from_pb(trade.delivery_area),
              delivery_period |-> delivery_period,
              execution_time  |-> ToDatetime(ReadTimestamp(trade.execution_time)),
              price           |-> Price_from_pb(trade.price),
              quantity        |-> Energy_from_pb(trade.quantity),
              state           |-> TradeState_from_pb(trade.state)]

\* Trade.to_pb.  execution_time is given the result of
\* Timestamp().FromDatetime(...), which is None: the field stays unset.
Trade_to_pb(self) ==
    [id              |-> self.id,
     order_id        |-> self.order_id,
     side            |-> MarketSide_to_pb(self.side),
     delivery_area   |-> DeliveryArea_to_pb(self.delivery_area),
     delivery_period |-> DeliveryPeriod_to_pb(self.delivery_period),
     execution_time  |-> None,
     price           |-> Price_to_pb(self.price),
     quantity        |-> Energy_to_pb(self.quantity),
     state           |-> TradeState_to_pb(self.state)]

\* Trade.__eq__ (dataclass)
TradeEq(a, b) ==
    /\ a.id = b.id
    /\ a.order_id = b.order_id
    /\ a.side = b.side
    /\ a.delivery_area = b.delivery_area
    /\ DeliveryPeriodEq(a.delivery_period, b.delivery_period)
    /\ datetimeEq(a.execution_time, b.execution_time)
    /\ PriceEq(a.price, b.price)
    /\ EnergyEq(a.quantity, b.quantity)
    /\ a.state = b.state

\* StateDetail(state, state_reason, market_actor)
StateDetail(state, state_reason, market_actor) ==
    [state |-> state, state_reason |-> state_reason, market_actor |-> market_actor]

\* StateDetail.from_pb
StateDetail_from_pb(state_detail) ==
    StateDetail(OrderState_from_pb(state_detail.state),
                StateReason_from_pb(state_detail.state_reason),
                MarketActor_from_pb(state_detail.market_actor))

\* StateDetail.to_pb
StateDetail_to_pb(self) ==
    [state        |-> OrderState_to_pb(self.state),
     state_reason |-> StateReason_to_pb(self.state_reason),
     market_actor |-> MarketActor_to_pb(self.market_actor)]

\* OrderDetail.from_pb
OrderDetail_from_pb(oid, order_detail) ==
    LET order == Order_from_pb(oid, order_detail.order)
    IN  IF order = ValueError
        THEN ValueError
        ELSE [order_id          |-> order_detail.order_id,
              order             |-> order,
              state_detail      |-> StateDetail_from_pb(order_detail.state_detail),
              open_quantity     |-> Energy_from_pb(order_detail.open_quantity),
              filled_quantity   |-> Energy_from_pb(order_detail.filled_quantity),
              create_time       |->
                 ToDatetime(ReadTimestamp(order_detail.create_time)),
              modification_time |->
                 ToDatetime(ReadTimestamp(order_detail.modification_time))]

\* OrderDetail.to_pb.  The two times are given the result of
\* Timestamp().FromDatetime(...), which is None: the fields stay unset.
OrderDetail_to_pb(self) ==
    [order_id          |-> self.order_id,
     order             |-> Order_to_pb(self.order),
     state_detail      |-> StateDetail_to_pb(self.state_detail),
     open_quantity     |-> Energy_to_pb(self.open_quantity),
     filled_quantity   |-> Energy_to_pb(self.filled_quantity),
     create_time       |-> None,
     modification_time |-> None]

\* OrderDetail.__eq__ (dataclass)
OrderDetailEq(a, b) ==
    /\ a.order_id = b.order_id
    /\ OrderEq(a.order, b.order)
    /\ a.state_detail = b.state_detail
    /\ EnergyEq(a.open_quantity, b.open_quantity)
    /\ EnergyEq(a.filled_quantity, b.filled_quantity)
    /\ datetimeEq(a.create_time, b.create_time)
    /\ datetimeEq(a.modification_time, b.modification_time)

\* PublicTrade.from_pb
PublicTrade_from_pb(oid, public_trade) ==
    LET delivery_period == DeliveryPeriod_from_pb(oid, public_trade.delivery_period)
    IN  IF delivery_period = ValueError
        THEN ValueError
        ELSE [public_trade_id    |-> public_trade.id,
              buy_delivery_area  |->
                 DeliveryArea_from_pb(public_trade.buy_delivery_area),
              sell_delivery_area |->
                 DeliveryArea_from_pb(public_trade.sell_delivery_area),
              delivery_period    |-> delivery_period,
              modification_time  |->
                 ToDatetime(ReadTimestamp(public_trade.modification_time)),
              price              |-> Price_from_pb(public_trade.price),
              quantity           |-> Energy_from_pb(public_trade.quantity),
              state              |-> TradeState_from_pb(public_trade.state)]

\* PublicTrade.to_pb.  modification_time is given None, as in Trade.to_pb.
PublicTrade_to_pb(self) ==
    [id                 |-> self.public_trade_id,
     buy_delivery_area  |-> DeliveryArea_to_pb(self.buy_delivery_area),
     sell_delivery_area |-> DeliveryArea_to_pb(self.sell_delivery_area),
     delivery_period    |-> DeliveryPeriod_to_pb(self.delivery_period),
     modification_time  |-> None,
     price              |-> Price_to_pb(self.price),
     quantity           |-> Energy_to_pb(self.quantity),
     state              |-> TradeState_to_pb(self.state)]

\* PublicTrade.__eq__ (dataclass)
PublicTradeEq(a, b) ==
    /\ a.public_trade_id = b.public_trade_id
    /\ a.buy_delivery_area = b.buy_delivery_area
    /\ a.sell_delivery_area = b.sell_delivery_area
    /\ DeliveryPeriodEq(a.delivery_period, b.delivery_period)
    /\ datetimeEq(a.modification_time, b.modification_time)
    /\ PriceEq(a.price, b.price)
    /\ EnergyEq(a.quantity, b.quantity)
    /\ a.state = b.state

\* Wire messages (the server's side), with every required field set
WirePrice(n) == [amount |-> [value |-> <<n, 0>>], currency |-> 3]

WireEnergy(n) == [mwh |-> [value |-> <<n, 0>>]]

WireArea == [code |-> "10YDE-EON------1", code_type |-> 1]

\* An Order message with the optional fields unset
WireOrder(start, duration, type, side) ==
    [delivery_area    |-> WireArea,
     delivery_period  |-> [start |-> start, duration |-> duration],
     type             |-> type,
     side             |-> side,
     price            |-> WirePrice(start),
     quantity         |-> WireEnergy(1),
     stop_price       |-> None,
     peak_price_delta |-> None,
     display_quantity |-> None,
     execution_option |-> None,
     valid_until      |-> None,
     payload          |-> None,
     tag              |-> None]

WireOrderDetail(id, order, state, state_reason, market_actor) ==
    [order_id          |-> id,
     order             |-> order,
     state_detail      |-> [state |-> state, state_reason |-> state_reason,
                            market_actor |-> market_actor],
     open_quantity     |-> WireEnergy(1),
     filled_quantity   |-> WireEnergy(0),
     create_time       |-> Some(id),
     modification_time |-> Some(id)]

WireTrade(id, start, duration, side, state) ==
    [id              |-> id,
     order_id        |-> id,
     side            |-> side,
     delivery_area   |-> WireArea,
     delivery_period |-> [start |-> start, duration |-> duration],
     execution_time  |-> Some(id),
     price           |-> WirePrice(start),
     quantity        |-> WireEnergy(1),
     state           |-> state]

WirePublicTrade(id, start, duration, state) ==
    [id                 |-> id,
     buy_delivery_area  |-> WireArea,
     sell_delivery_area |-> WireArea,
     delivery_period    |-> [start |-> start, duration |-> duration],
     modification_time  |-> Some(id),
     price              |-> WirePrice(start),
     quantity           |-> WireEnergy(1),
     state              |-> state]

\* The n-th response an upstream stream of `kind` produces.  Every scripted
\* response carries one of the four recognised duration codes.
UpstreamResponse(kind, n) ==
    LET duration == ((n - 1) % 4) + 1
    IN  CASE kind = "gridpool_orders" ->
               [order_detail |->
                  WireOrderDetail(n, WireOrder(n, duration, 1, 1), n % 10, 1, 1)]
          [] kind = "gridpool_trades" ->
               [trade |-> WireTrade(n, n, duration, 1, n % 9)]
          [] kind = "public_trades" ->
               [public_trade |-> WirePublicTrade(n, n, duration, n % 9)]

\* The transform each stream_* method hands to its helper:
\*   lambda response: OrderDetail.from_pb(response.order_detail)
\*   lambda response: Trade.from_pb(response.trade)
\*   lambda response: PublicTrade.from_pb(response.public_trade)
Transform(kind, oid, response) ==
    CASE kind = "gridpool_orders" -> OrderDetail_from_pb(oid, response.order_detail)
      [] kind = "gridpool_trades" -> Trade_from_pb(oid, response.trade)
      [] kind = "public_trades"   -> PublicTrade_from_pb(oid, response.public_trade)

----------------------------------------------------------------------------
(* _types.py: the decoding of UpdateOrder, the wire forms of the filters   *)
(* and PaginationParams                                                    *)

\* Reading a field of a message: the default of the field's type when the
\* field is unset
ReadField(field, default) == IF field = None THEN default ELSE field[1]

\* The default DeliveryPeriod and DeliveryArea messages
DefaultPeriod == [start |-> 0, duration |-> 0]

DefaultArea == [code |-> "", code_type |-> 0]

\* UpdateOrder.from_pb: HasField decides for every field but the payload,
\* which is tested for being non-empty
UpdateOrder_from_pb(update_order) ==
    UpdateOrder(
        IF update_order.price # None
        THEN Some(Price_from_pb(update_order.price[1])) ELSE None,
        IF update_order.quantity # None
        THEN Some(Energy_from_pb(update_order.quantity[1])) ELSE None,
        IF update_order.stop_price # None
        THEN Some(Price_from_pb(update_order.stop_price[1])) ELSE None,
        IF update_order.peak_price_delta # None
        THEN Some(Price_from_pb(update_order.peak_price_delta[1])) ELSE None,
        IF update_order.display_quantity # None
        THEN Some(Energy_from_pb(update_order.display_quantity[1])) ELSE None,
        IF update_order.execution_option # None
        THEN Some(OrderExecutionOption_from_pb(update_order.execution_option[1]))
        ELSE None,
        IF update_order.valid_until # None
        THEN Some(ToDatetime(update_order.valid_until[1])) ELSE None,
        IF update_order.payload # None /\ update_order.payload[1].fields # {}
        THEN Some(MessageToDict(update_order.payload[1])) ELSE None,
        IF update_order.tag # None THEN update_order.tag ELSE None)

\* PaginationParams(page_size, page_token)
PaginationParams(page_size, page_token) ==
    [page_size |-> page_size, page_token |-> page_token]

\* PaginationParams.from_pb: the two fields are read as they are
PaginationParams_from_pb(pagination_params) ==
    PaginationParams(Some(ReadField(pagination_params.page_size, 0)),
                     Some(ReadField(pagination_params.page_token, "")))

\* An encoding that would write the default of a field that is None
PaginationParams_to_pb_defaults(self) ==
    [page_size  |-> Some(ReadField(self.page_size, 0)),
     page_token |-> Some(ReadField(self.page_token, ""))]

\* PaginationParams.to_pb: the fields are passed as they are, and a keyword
\* argument that is None leaves its field unset
PaginationParams_to_pb(self) ==
    [page_size |-> self.page_size, page_token |-> self.page_token]

\* [X.from_pb(state) for state in message.states] for the order states
OrderStates_from_pb(states) ==
    [i \in DOMAIN states |-> OrderState_from_pb(states[i])]

\* The same for the trade states
TradeStates_from_pb(states) ==
    [i \in DOMAIN states |-> TradeState_from_pb(states[i])]

\* GridpoolOrderFilter.from_pb: every field is read and decoded, set or not
GridpoolOrderFilter_from_pb(oid, gridpool_order_filter) ==
    LET delivery_period ==
            DeliveryPeriod_from_pb(
                oid, ReadField(gridpool_order_filter.delivery_period, DefaultPeriod))
    IN  IF delivery_period = ValueError
        THEN ValueError
        ELSE GridpoolOrderFilter(
                Some(OrderStates_from_pb(gridpool_order_filter.states)),
                Some(MarketSide_from_pb(ReadField(gridpool_order_filter.side, 0))),
                Some(delivery_period),
                Some(DeliveryArea_from_pb(
                        ReadField(gridpool_order_filter.delivery_area, DefaultArea))),
                Some(ReadField(gridpool_order_filter.tag, "")))

\* GridpoolOrderFilter.to_pb: a field that tests false (None, an empty list,
\* an empty str) is passed as None
GridpoolOrderFilter_to_pb(self) ==
    [states |->
        IF self.order_states # None /\ self.order_states[1] # << >>
        THEN [i \in DOMAIN self.order_states[1] |->
                 OrderState_to_pb(self.order_states[1][i])]
        ELSE << >>,
     side |->
        IF self.side # None THEN Some(MarketSide_to_pb(self.side[1])) ELSE None,
     delivery_period |->
        IF self.delivery_period # None
        THEN Some(DeliveryPeriod_to_pb(self.delivery_period[1])) ELSE None,
     delivery_area |->
        IF self.delivery_area # None
        THEN Some(DeliveryArea_to_pb(self.delivery_area[1])) ELSE None,
     tag |->
        IF Truthy("tag", self.tag) THEN self.tag ELSE None]

\* GridpoolTradeFilter.from_pb
GridpoolTradeFilter_from_pb(oid, gridpool_trade_filter) ==
    LET delivery_period ==
            DeliveryPeriod_from_pb(
                oid, ReadField(gridpool_trade_filter.delivery_period, DefaultPeriod))
    IN  IF delivery_period = ValueError
        THEN ValueError
        ELSE GridpoolTradeFilter(
                Some(TradeStates_from_pb(gridpool_trade_filter.states)),
                Some(gridpool_trade_filter.trade_id_lists),
                Some(MarketSide_from_pb(ReadField(gridpool_trade_filter.side, 0))),
                Some(delivery_period),
                Some(DeliveryArea_from_pb(
                        ReadField(gridpool_trade_filter.delivery_area, DefaultArea))))

\* GridpoolTradeFilter.to_pb
GridpoolTradeFilter_to_pb(self) ==
    [states |->
        IF self.trade_states # None /\ self.trade_states[1] # << >>
        THEN [i \in DOMAIN self.trade_states[1] |->
                 TradeState_to_pb(self.trade_states[1][i])]
        ELSE << >>,
     trade_id_lists |->
        IF self.trade_id_lists # None /\ self.trade_id_lists[1] # << >>
        THEN self.trade_id_lists[1]
        ELSE << >>,
     side |->
        IF self.side # None THEN Some(MarketSide_to_pb(self.side[1])) ELSE None,
     delivery_period |->
        IF self.delivery_period # None
        THEN Some(DeliveryPeriod_to_pb(self.delivery_period[1])) ELSE None,
     delivery_area |->
        IF self.delivery_area # None
        THEN Some(DeliveryArea_to_pb(self.delivery_area[1])) ELSE None]

\* PublicTradeFilter.from_pb
PublicTradeFilter_from_pb(oid, public_trade_filter) ==
    LET delivery_period ==
            DeliveryPeriod_from_pb(
                oid, ReadField(public_trade_filter.delivery_period, DefaultPeriod))
    IN  IF delivery_period = ValueError
        THEN ValueError
        ELSE PublicTradeFilter(
                Some(TradeStates_from_pb(public_trade_filter.states)),
                Some(delivery_period),
                Some(DeliveryArea_from_pb(
                        ReadField(public_trade_filter.buy_delivery_area, DefaultArea))),
                Some(DeliveryArea_from_pb(
                        ReadField(public_trade_filter.sell_delivery_area, DefaultArea))))

\* PublicTradeFilter.to_pb: the states are written by their member values
PublicTradeFilter_to_pb(self) ==
    [states |->
        IF self.states # None /\ self.states[1] # << >>
        THEN [i \in DOMAIN self.states[1] |-> TradeState_to_pb(self.states[1][i])]
        ELSE << >>,
     delivery_period |->
        IF self.delivery_period # None
        THEN Some(DeliveryPeriod_to_pb(self.delivery_period[1])) ELSE None,
     buy_delivery_area |->
        IF self.buy_delivery_area # None
        THEN Some(DeliveryArea_to_pb(self.buy_delivery_area[1])) ELSE None,
     sell_delivery_area |->
        IF self.sell_delivery_area # None
        THEN Some(DeliveryArea_to_pb(self.sell_delivery_area[1])) ELSE None]

----------------------------------------------------------------------------
(* The conversions of _types.py applied to a value: from_pb, to_pb and the  *)
(* constructor of DeliveryPeriod.  conv holds the type, and the trace of    *)
(* the value: each element is the form ("args", "pb", "py" or "raised"),    *)
(* the type again and the value in that form.                               *)

EnumTypes ==
    {"Currency", "EnergyMarketCodeType", "DeliveryDuration",
     "OrderExecutionOption", "OrderType", "MarketSide", "OrderState",
     "TradeState", "StateReason", "MarketActor"}

DecodedRecordTypes == {"Order", "Trade", "PublicTrade", "OrderDetail"}

RecordTypes ==
    {"Price", "Energy", "DeliveryArea", "StateDetail"} \cup DecodedRecordTypes

FilterTypes == {"GridpoolOrderFilter", "GridpoolTradeFilter", "PublicTradeFilter"}

\* The types a request is built from
RequestTypes == {"UpdateOrder", "PaginationParams"} \cup FilterTypes

\* The members of an enumeration, by wire code
Members(type) ==
    CASE type = "Currency"             -> CurrencyMembers
      [] type = "EnergyMarketCodeType" -> EnergyMarketCodeTypeMembers
      [] type = "DeliveryDuration"     -> DeliveryDurationMembers
      [] type = "OrderExecutionOption" -> OrderExecutionOptionMembers
      [] type = "OrderType"            -> OrderTypeMembers
      [] type = "MarketSide"           -> MarketSideMembers
      [] type = "OrderState"           -> OrderStateMembers
      [] type = "TradeState"           -> TradeStateMembers
      [] type = "StateReason"          -> StateReasonMembers
      [] type = "MarketActor"          -> MarketActorMembers

MemberNames(type) == {Members(type)[c] : c \in DOMAIN Members(type)}

\* type.from_pb(message); oid is the identity of the DeliveryPeriod object
\* the call constructs, if any
FromPb(type, oid, message) ==
    CASE type = "Currency"             -> Currency_from_pb(message)
      [] type = "EnergyMarketCodeType" -> EnergyMarketCodeType_from_pb(message)
      [] type = "DeliveryDuration"     -> DeliveryDuration_from_pb(message)
      [] type = "OrderExecutionOption" -> OrderExecutionOption_from_pb(message)
      [] type = "OrderType"            -> OrderType_from_pb(message)
      [] type = "MarketSide"           -> MarketSide_from_pb(message)
      [] type = "OrderState"           -> OrderState_from_pb(message)
      [] type = "TradeState"           -> TradeState_from_pb(message)
      [] type = "StateReason"          -> StateReason_from_pb(message)
      [] type = "MarketActor"          -> MarketActor_from_pb(message)
      [] type = "Price"                -> Price_from_pb(message)
      [] type = "Energy"               -> Energy_from_pb(message)
      [] type = "DeliveryArea"         -> DeliveryArea_from_pb(message)
      [] type = "DeliveryPeriod"       -> DeliveryPeriod_from_pb(oid, message)
      [] type = "StateDetail"          -> StateDetail_from_pb(message)
      [] type = "Order"                -> Order_from_pb(oid, message)
      [] type = "Trade"                -> Trade_from_pb(oid, message)
      [] type = "PublicTrade"          -> PublicTrade_from_pb(oid, message)
      [] type = "OrderDetail"          -> OrderDetail_from_pb(oid, message)
      [] type = "UpdateOrder"          -> UpdateOrder_from_pb(message)
      [] type = "PaginationParams"     -> PaginationParams_from_pb(message)
      [] type = "GridpoolOrderFilter"  -> GridpoolOrderFilter_from_pb(oid, message)
      [] type = "GridpoolTradeFilter"  -> GridpoolTradeFilter_from_pb(oid, message)
      [] type = "PublicTradeFilter"    -> PublicTradeFilter_from_pb(oid, message)

\* value.to_pb()
ToPb(type, value) ==
    CASE type = "Currency"             -> Currency_to_pb(value)
      [] type = "EnergyMarketCodeType" -> EnergyMarketCodeType_to_pb(value)
      [] type = "DeliveryDuration"     -> DeliveryDuration_to_pb(value)
      [] type = "OrderExecutionOption" -> OrderExecutionOption_to_pb(value)
      [] type = "OrderType"            -> OrderType_to_pb(value)
      [] type = "MarketSide"           -> MarketSide_to_pb(value)
      [] type = "OrderState"           -> OrderState_to_pb(value)
      [] type = "TradeState"           -> TradeState_to_pb(value)
      [] type = "StateReason"          -> StateReason_to_pb(value)
      [] type = "MarketActor"          -> MarketActor_to_pb(value)
      [] type = "Price"                -> Price_to_pb(value)
      [] type = "Energy"               -> Energy_to_pb(value)
      [] type = "DeliveryArea"         -> DeliveryArea_to_pb(value)
      [] type = "DeliveryPeriod"       -> DeliveryPeriod_to_pb(value)
      [] type = "StateDetail"          -> StateDetail_to_pb(value)
      [] type = "Order"                -> Order_to_pb(value)
      [] type = "Trade"                -> Trade_to_pb(value)
      [] type = "PublicTrade"          -> PublicTrade_to_pb(value)
      [] type = "OrderDetail"          -> OrderDetail_to_pb(value)
      [] type = "UpdateOrder"          -> UpdateOrder_to_pb(value)
      [] type = "PaginationParams"     -> PaginationParams_to_pb(value)
      [] type = "GridpoolOrderFilter"  -> GridpoolOrderFilter_to_pb(value)
      [] type = "GridpoolTradeFilter"  -> GridpoolTradeFilter_to_pb(value)
      [] type = "PublicTradeFilter"    -> PublicTradeFilter_to_pb(value)

\* a == b for two objects of the type, with the type's own __eq__
TypeEq(type, a, b) ==
    CASE type \in EnumTypes       -> a = b
      [] type = "Price"           -> PriceEq(a, b)
      [] type = "Energy"          -> EnergyEq(a, b)
      [] type = "DeliveryArea"    -> a = b
      [] type = "DeliveryPeriod"  -> DeliveryPeriodEq(a, b)
      [] type = "StateDetail"     -> a = b
      [] type = "Order"           -> OrderEq(a, b)
      [] type = "Trade"           -> TradeEq(a, b)
      [] type = "PublicTrade"     -> PublicTradeEq(a, b)
      [] type = "OrderDetail"     -> OrderDetailEq(a, b)

\* The call raised instead of returning an object of the type
Raised(type, result) ==
    IF type \in EnumTypes
    THEN result \notin MemberNames(type)
    ELSE result = ValueError

Form(form, type, val) == [form |-> form, of |-> type, val |-> val]

Last(trace) == trace[Len(trace)]

----------------------------------------------------------------------------
(* GrpcStreamingHelper, as the design document describes the stream of one *)
(* key: one upstream call, a pump, the set of registered consumers.        *)

\* GrpcStreamingHelper(name, stream_method, transform): the upstream call is
\* opened and the pump started; nothing has been received yet.
GrpcStreamingHelper(kind, key) ==
    [kind |-> kind, key |-> key, status |-> "running", sent |-> 0]

\* The n-th item the pump of helper h pushes: the transform of the n-th
\* response, a new object each time.
PumpedItem(kind, h, n) ==
    Transform(kind, (100 * h) + n, UpstreamResponse(kind, n))

\* A consumer handle that would replay what the stream delivered before it
\* was registered.
new_receiver_replay(hs, h) ==
    [helper   |-> h,
     joined   |-> hs[h].sent,
     rcvd     |-> [i \in 1..hs[h].sent |-> PumpedItem(hs[h].kind, h, i)],
     born     |-> hs[h].status,
     attached |-> TRUE,
     closed   |-> IF hs[h].status = "running" THEN "open" ELSE hs[h].status]

\* helper.new_receiver(): a new consumer handle, registered with the helper
\* from now on.  A handle of a stream that has terminated is closed already.
new_receiver(hs, h) ==
    [helper   |-> h,
     joined   |-> hs[h].sent,
     rcvd     |-> << >>,
     born     |-> hs[h].status,
     attached |-> TRUE,
     closed   |-> IF hs[h].status = "running" THEN "open" ELSE hs[h].status]

\* The consumers the pump of helper h delivers to
Consumers(rs, h) ==
    {r \in DOMAIN rs : rs[r].helper = h /\ rs[r].attached /\ rs[r].closed = "open"}

\* A pump that pushes each item to the front of a consumer's buffer.
DeliverFront(rcvd, item) == <<item>> \o rcvd

\* The pump pushes one decoded item to a consumer
Deliver(rcvd, item) == Append(rcvd, item)

\* The status of a running stream after one of its consumers has detached:
\* cancelled whatever consumers remain.
StatusAfterDetachAlways(rs, h) == "cancelled"

\* The status of a running stream after one of its consumers has detached
\* (rs is the consumer table after the detach): the upstream call is closed
\* when no consumer is left.
StatusAfterDetach(rs, h) ==
    IF \E r \in DOMAIN rs : rs[r].helper = h /\ rs[r].attached
    THEN "running"
    ELSE "cancelled"

----------------------------------------------------------------------------
(* The arguments the stream_* coroutines are called with *)

\* Two delivery periods built separately from the same start and duration
Period1 == DeliveryPeriod(1, datetime(0, Some(0)), 15)

Period2 == DeliveryPeriod(2, datetime(0, Some(0)), 15)

Area == DeliveryArea("10YDE-EON------1", "EUROPE_EIC")

OrdersArgs(order_states, market_side, delivery_area, delivery_period, tag) ==
    [order_states    |-> order_states,
     market_side     |-> market_side,
     delivery_area   |-> delivery_area,
     delivery_period |-> delivery_period,
     tag             |-> tag]

TradesArgs(trade_states, trade_ids, market_side, delivery_period, delivery_area) ==
    [trade_states    |-> trade_states,
     trade_ids       |-> trade_ids,
     market_side     |-> market_side,
     delivery_period |-> delivery_period,
     delivery_area   |-> delivery_area]

PublicArgs(states, delivery_period, buy_delivery_area, sell_delivery_area) ==
    [states             |-> states,
     delivery_period    |-> delivery_period,
     buy_delivery_area  |-> buy_delivery_area,
     sell_delivery_area |-> sell_delivery_area]

\* stream_gridpool_orders with the defaults, and with one argument given
OrdersArgSets ==
    {OrdersArgs(None, None, None, None, None),
     OrdersArgs(Some(<<"ACTIVE">>), None, None, None, None),
     OrdersArgs(None, Some("BUY"), None, None, None),
     OrdersArgs(None, None, Some(Area), None, None),
     OrdersArgs(None, None, None, Some(Period1), None),
     OrdersArgs(None, None, None, Some(Period2), None),
     OrdersArgs(None, None, None, None, Some("tag"))}

TradesArgSets ==
    {TradesArgs(None, None, None, None, None),
     TradesArgs(None, Some(<<7>>), None, None, None)}

PublicArgSets ==
    {PublicArgs(None, None, None, None),
     PublicArgs(Some(<<"ACTIVE">>), None, None, None)}

\* The calls of a client that uses every kind of key
KeyRequests ==
    {[kind |-> "gridpool_orders", gridpool_id |-> 1, args |-> a] :
        a \in OrdersArgSets}
    \cup
    {[kind |-> "gridpool_orders", gridpool_id |-> 2,
      args |-> OrdersArgs(None, None, None, None, None)]}
    \cup
    {[kind |-> "gridpool_trades", gridpool_id |-> 1, args |-> a] :
        a \in TradesArgSets}
    \cup
    {[kind |-> "public_trades", gridpool_id |-> 0, args |-> a] :
        a \in PublicArgSets}

\* The calls of a client that uses few keys and listens for long
StreamRequests ==
    {[kind |-> "gridpool_orders", gridpool_id |-> g,
      args |-> OrdersArgs(None, None, None, None, None)] : g \in {1, 2}}
    \cup
    {[kind |-> "gridpool_trades", gridpool_id |-> 1,
      args |-> TradesArgs(None, None, None, None, None)],
     [kind |-> "public_trades", gridpool_id |-> 0,
      args |-> PublicArgs(None, None, None, None)]}

----------------------------------------------------------------------------
(* Client *)

Streams(kind) ==
    CASE kind = "gridpool_orders" -> gridpool_orders_streams
      [] kind = "gridpool_trades" -> gridpool_trades_streams
      [] kind = "public_trades"   -> public_trades_streams

\* The filter a stream_* coroutine builds from its arguments
FilterOf(kind, a) ==
    CASE kind = "gridpool_orders" ->
            GridpoolOrderFilter(a.order_states, a.market_side,
                                a.delivery_period, a.delivery_area, a.tag)
      [] kind = "gridpool_trades" ->
            GridpoolTradeFilter(a.trade_states, a.trade_ids, a.market_side,
                                a.delivery_period, a.delivery_area)
      [] kind = "public_trades" ->
            PublicTradeFilter(a.states, a.delivery_period,
                              a.buy_delivery_area, a.sell_delivery_area)

\* The stream key of a call
KeyOf(c) == StreamKey(c.kind, c.gridpool_id, FilterOf(c.kind, c.args))

\* Client.__init__: three empty dicts
Init ==
    /\ gridpool_orders_streams = {}
    /\ gridpool_trades_streams = {}
    /\ public_trades_streams = {}
    /\ helpers = << >>
    /\ receivers = << >>
    /\ calls = << >>
    /\ rpcs = << >>
    /\ stub = << >>
    /\ conv = << >>

\* A stream_* coroutine is created with its arguments; its body has not run.
\* `early` records that no stream was registered for its key at that moment.
Issue(req) ==
    /\ Len(calls) < MaxCalls
    /\ calls' = Append(calls,
          [kind        |-> req.kind,
           gridpool_id |-> req.gridpool_id,
           args        |-> req.args,
           pc          |-> "pending",
           rcv         |-> 0,
           early       |-> LET key == StreamKey(req.kind, req.gridpool_id,
                                                FilterOf(req.kind, req.args))
                           IN  /\ StreamKeyHashable(req.kind, key)
                               /\ ~Contains(req.kind, Streams(req.kind), key)])
    /\ UNCHANGED <<gridpool_orders_streams, gridpool_trades_streams,
                   public_trades_streams, helpers, receivers>>
    /\ UNCHANGED <<rpcs, stub, conv>>

\* A bug the coroutines could have: the receiver made for the first caller
\* of a stream is kept and handed to every later caller.
SubscribeCachedReceiver(c, streams, streamsNext) ==
    LET kind == calls[c].kind
        key  == KeyOf(calls[c])
    IN  IF ~StreamKeyHashable(kind, key)
        THEN /\ calls' = [calls EXCEPT ![c].pc = "raised"]
             /\ streamsNext = streams
             /\ UNCHANGED <<helpers, receivers>>
        ELSE LET absent == ~Contains(kind, streams, key)
                 hs == IF absent
                       THEN Append(helpers, GrpcStreamingHelper(kind, key))
                       ELSE helpers
                 st == IF absent
                       THEN SetItem(kind, streams, key, Len(hs))
                       ELSE streams
                 h  == GetItem(kind, st, key)
                 old == {r \in DOMAIN receivers : receivers[r].helper = h}
             IN  /\ helpers' = hs
                 /\ streamsNext = st
                 /\ receivers' = IF old = {}
                                 THEN Append(receivers, new_receiver(hs, h))
                                 ELSE receivers
                 /\ calls' = [calls EXCEPT
                        ![c].pc = "returned",
                        ![c].rcv = IF old = {}
                                   THEN Len(receivers) + 1
                                   ELSE CHOOSE r \in old : \A o \in old : r <= o]

\* A body that would open a new stream, and put it in the place of the
\* registered one, when the registered stream is no longer running.
SubscribeReopening(c, streams, streamsNext) ==
    LET kind == calls[c].kind
        key  == KeyOf(calls[c])
    IN  IF ~StreamKeyHashable(kind, key)
        THEN /\ calls' = [calls EXCEPT ![c].pc = "raised"]
             /\ streamsNext = streams
             /\ UNCHANGED <<helpers, receivers>>
        ELSE LET absent == \/ ~Contains(kind, streams, key)
                           \/ helpers[GetItem(kind, streams, key)].status # "running"
                 hs == IF absent
                       THEN Append(helpers, GrpcStreamingHelper(kind, key))
                       ELSE helpers
                 st == IF absent
                       THEN SetItem(kind, streams, key, Len(hs))
                       ELSE streams
                 h  == GetItem(kind, st, key)
             IN  /\ helpers' = hs
                 /\ streamsNext = st
                 /\ receivers' = Append(receivers, new_receiver(hs, h))
                 /\ calls' = [calls EXCEPT ![c].pc = "returned",
                                           ![c].rcv = Len(receivers) + 1]

\* The body shared by the three coroutines, which has no await in it and so
\* runs in one step: look the key up (TypeError when it has no hash),
\* construct and register a helper when it is absent, return new_receiver()
\* of the registered helper.  streams is the dict of the coroutine.
Subscribe(c, streams, streamsNext) ==
    LET kind == calls[c].kind
        key  == KeyOf(calls[c])
    IN  IF ~StreamKeyHashable(kind, key)
        THEN /\ calls' = [calls EXCEPT ![c].pc = "raised"]
             /\ streamsNext = streams
             /\ UNCHANGED <<helpers, receivers>>
        ELSE LET absent == ~Contains(kind, streams, key)
                 hs == IF absent
                       THEN Append(helpers, GrpcStreamingHelper(kind, key))
                       ELSE helpers
                 st == IF absent
                       THEN SetItem(kind, streams, key, Len(hs))
                       ELSE streams
                 h  == GetItem(kind, st, key)
             IN  /\ helpers' = hs
                 /\ streamsNext = st
                 /\ receivers' = Append(receivers, new_receiver(hs, h))
                 /\ calls' = [calls EXCEPT ![c].pc = "returned",
                                           ![c].rcv = Len(receivers) + 1]

\* The event loop starts the coroutines in the order they were created.
Scheduled(c) == \A d \in 1..(c - 1) : calls[d].pc # "pending"

\* Client.stream_gridpool_orders
stream_gridpool_orders(c) ==
    /\ Scheduled(c)
    /\ calls[c].kind = "gridpool_orders"
    /\ calls[c].pc = "pending"
    /\ Subscribe(c, gridpool_orders_streams, gridpool_orders_streams')
    /\ UNCHANGED <<gridpool_trades_streams, public_trades_streams>>
    /\ UNCHANGED <<rpcs, stub, conv>>

\* Client.stream_gridpool_trades
stream_gridpool_trades(c) ==
    /\ Scheduled(c)
    /\ calls[c].kind = "gridpool_trades"
    /\ calls[c].pc = "pending"
    /\ Subscribe(c, gridpool_trades_streams, gridpool_trades_streams')
    /\ UNCHANGED <<gridpool_orders_streams, public_trades_streams>>
    /\ UNCHANGED <<rpcs, stub, conv>>

\* Client.stream_public_trades
stream_public_trades(c) ==
    /\ Scheduled(c)
    /\ calls[c].kind = "public_trades"
    /\ calls[c].pc = "pending"
    /\ Subscribe(c, public_trades_streams, public_trades_streams')
    /\ UNCHANGED <<gridpool_orders_streams, gridpool_trades_streams>>
    /\ UNCHANGED <<rpcs, stub, conv>>

----------------------------------------------------------------------------
(* _client.py: update_gridpool_order *)

\* NO_VALUE = _Sentinel(): the default of every updatable parameter, told
\* from None and from every value by `is`.
NO_VALUE == <<"_Sentinel", "NO_VALUE">>

\* The arguments update_gridpool_order is called with, per parameter: left
\* out, None, or a value (for tag and payload also the empty value)
PriceArgs == {NO_VALUE, None, Some(Price(Decimal(1, 0), "EUR"))}

EnergyArgs == {NO_VALUE, None, Some(Energy(Decimal(1, 0)))}

ExecutionOptionArgs == {NO_VALUE, None, Some("UNSPECIFIED"), Some("AON")}

ValidUntilArgs == {NO_VALUE, None, Some(datetime(1, Some(0)))}

PayloadArgs ==
    {NO_VALUE, None, Some({}), Some({<<"k", [string_value |-> "v"]>>})}

TagArgs == {NO_VALUE, None, Some(""), Some("tag")}

\* The parameters of a call that are not left at NO_VALUE
Given(params) == {f \in DOMAIN params : params[f] # NO_VALUE}

\* The calls with at most `most` parameters given
UpdateArgSets(most) ==
    {params \in
        {[price            |-> price,
          quantity         |-> quantity,
          stop_price       |-> stop_price,
          peak_price_delta |-> peak_price_delta,
          display_quantity |-> display_quantity,
          execution_option |-> execution_option,
          valid_until      |-> valid_until,
          payload          |-> payload,
          tag              |-> tag] :
            price \in PriceArgs, quantity \in EnergyArgs,
            stop_price \in PriceArgs, peak_price_delta \in PriceArgs,
            display_quantity \in EnergyArgs,
            execution_option \in ExecutionOptionArgs,
            valid_until \in ValidUntilArgs,
            payload \in PayloadArgs, tag \in TagArgs} :
        Cardinality(Given(params)) <= most}

\* The update_gridpool_order calls a client makes
UpdateCalls == UpdateArgSets(MaxGiven)

\* A validation that would let every call through
NothingToUpdateNever(params) == FALSE

\* all(value is NO_VALUE for value in params.values())
NothingToUpdate(params) == \A f \in DOMAIN params : params[f] = NO_VALUE

\* A mask that would name every updatable field
PathsAll(params) == UpdateFields

\* A mask that would leave out the parameters given as None
PathsNotNone(params) ==
    SelectSeq(UpdateFields,
              LAMBDA f : params[f] # NO_VALUE /\ params[f] # None)

\* paths = [param for param, value in params.items() if value is not NO_VALUE]
Paths(params) == SelectSeq(UpdateFields, LAMBDA f : params[f] # NO_VALUE)

\* None if value is NO_VALUE else value
NoneIfNoValue(value) == IF value = NO_VALUE THEN None ELSE value

\* UpdateGridpoolOrderRequest(gridpool_id, order_id, update_order_fields,
\* update_mask) as update_gridpool_order builds it
UpdateGridpoolOrderRequest(gridpool_id, order_id, params) ==
    [gridpool_id |-> gridpool_id,
     order_id    |-> order_id,
     update_order_fields |->
        UpdateOrder_to_pb(
            UpdateOrder(NoneIfNoValue(params.price),
                        NoneIfNoValue(params.quantity),
                        NoneIfNoValue(params.stop_price),
                        NoneIfNoValue(params.peak_price_delta),
                        NoneIfNoValue(params.display_quantity),
                        NoneIfNoValue(params.execution_option),
                        NoneIfNoValue(params.valid_until),
                        NoneIfNoValue(params.payload),
                        NoneIfNoValue(params.tag))),
     update_mask |-> [paths |-> Paths(params)]]

\* The error an awaited stub call fails with
AioRpcError == [error |-> "AioRpcError"]

\* The stub after the awaited call of coroutine c got its reply
Replied(c, reply) ==
    [i \in DOMAIN stub |->
        IF stub[i].call = c /\ stub[i].reply = None
        THEN [stub[i] EXCEPT !.reply = Some(reply)]
        ELSE stub[i]]

\* The event loop runs what is ready in the order it was made ready: the
\* body of a coroutine starts once the coroutines created before it have
\* started.
ScheduledRpc(c) ==
    /\ rpcs[c].pc = "pending"
    /\ \A d \in 1..(c - 1) : rpcs[d].pc # "pending"

\* An update_gridpool_order coroutine is created with its arguments; a
\* client makes one such call.
IssueUpdate(gridpool_id, order_id) ==
    /\ rpcs = << >>
    /\ \E params \in UpdateCalls :
          rpcs' = Append(rpcs,
             [method      |-> "UpdateGridpoolOrder",
              gridpool_id |-> gridpool_id,
              order_id    |-> order_id,
              params      |-> params,
              pc          |-> "pending",
              result      |-> None])
    /\ UNCHANGED <<gridpool_orders_streams, gridpool_trades_streams,
                   public_trades_streams, helpers, receivers, calls, stub, conv>>

\* Client.update_gridpool_order up to its await: ValueError when nothing is
\* given, otherwise the stub method is called with the request.
update_gridpool_order(c) ==
    /\ rpcs[c].method = "UpdateGridpoolOrder"
    /\ ScheduledRpc(c)
    /\ IF NothingToUpdate(rpcs[c].params)
       THEN /\ rpcs' = [rpcs EXCEPT ![c].pc = "raised",
                                    ![c].result = Some(ValueError)]
            /\ stub' = stub
       ELSE /\ stub' = Append(stub,
                  [method  |-> "UpdateGridpoolOrder",
                   call    |-> c,
                   request |-> UpdateGridpoolOrderRequest(
                                  rpcs[c].gridpool_id, rpcs[c].order_id,
                                  rpcs[c].params),
                   reply   |-> None])
            /\ rpcs' = [rpcs EXCEPT ![c].pc = "awaiting"]
    /\ UNCHANGED <<gridpool_orders_streams, gridpool_trades_streams,
                   public_trades_streams, helpers, receivers, calls, conv>>

\* The awaited UpdateGridpoolOrder call answers with the n-th order detail:
\* return OrderDetail.from_pb(response.order_detail)
UpdateGridpoolOrderResponse(c, n) ==
    /\ rpcs[c].method = "UpdateGridpoolOrder"
    /\ rpcs[c].pc = "awaiting"
    /\ LET response == UpstreamResponse("gridpool_orders", n)
           detail   == OrderDetail_from_pb(n, response.order_detail)
       IN  /\ rpcs' = [rpcs EXCEPT
                         ![c].pc = IF detail = ValueError THEN "raised" ELSE "returned",
                         ![c].result = Some(detail)]
           /\ stub' = Replied(c, [response |-> response])
    /\ UNCHANGED <<gridpool_orders_streams, gridpool_trades_streams,
                   public_trades_streams, helpers, receivers, calls, conv>>

\* The awaited UpdateGridpoolOrder call fails: the error of the stub leaves
\* the coroutine.
UpdateGridpoolOrderError(c) ==
    /\ rpcs[c].method = "UpdateGridpoolOrder"
    /\ rpcs[c].pc = "awaiting"
    /\ rpcs' = [rpcs EXCEPT ![c].pc = "raised", ![c].result = Some(AioRpcError)]
    /\ stub' = Replied(c, AioRpcError)
    /\ UNCHANGED <<gridpool_orders_streams, gridpool_trades_streams,
                   public_trades_streams, helpers, receivers, calls, conv>>

----------------------------------------------------------------------------
(* _client.py: the other one-shot operations *)

\* A one-shot coroutine is created with its arguments; its body has not run.
IssueCall(req) ==
    /\ Len(rpcs) < MaxRpcs
    /\ rpcs' = Append(rpcs,
          [method      |-> req.method,
           gridpool_id |-> req.gridpool_id,
           order_id    |-> req.order_id,
           params      |-> req.params,
           pc          |-> "pending",
           result      |-> None])
    /\ UNCHANGED <<gridpool_orders_streams, gridpool_trades_streams,
                   public_trades_streams, helpers, receivers, calls, stub, conv>>

\* `await self._stub.Method(request)`: the stub method is called with the
\* request and the coroutine waits for the reply.
StubCall(c, request) ==
    /\ stub' = Append(stub,
          [method  |-> rpcs[c].method,
           call    |-> c,
           request |-> request,
           reply   |-> None])
    /\ rpcs' = [rpcs EXCEPT ![c].pc = "awaiting"]
    /\ UNCHANGED <<gridpool_orders_streams, gridpool_trades_streams,
                   public_trades_streams, helpers, receivers, calls, conv>>

\* Client.create_gridpool_order up to its await
create_gridpool_order(c) ==
    /\ rpcs[c].method = "CreateGridpoolOrder"
    /\ ScheduledRpc(c)
    /\ LET a == rpcs[c].params
           order == [delivery_area    |-> a.delivery_area,
                     delivery_period  |-> a.delivery_period,
                     type             |-> a.order_type,
                     side             |-> a.side,
                     price            |-> a.price,
                     quantity         |-> a.quantity,
                     stop_price       |-> a.stop_price,
                     peak_price_delta |-> a.peak_price_delta,
                     display_quantity |-> a.display_quantity,
                     execution_option |-> a.execution_option,
                     valid_until      |-> a.valid_until,
                     payload          |-> a.payload,
                     tag              |-> a.tag]
       IN  StubCall(c, [gridpool_id |-> rpcs[c].gridpool_id,
                        order       |-> Order_to_pb(order)])

\* Client.cancel_gridpool_order up to its await
cancel_gridpool_order(c) ==
    /\ rpcs[c].method = "CancelGridpoolOrder"
    /\ ScheduledRpc(c)
    /\ StubCall(c, [gridpool_id |-> rpcs[c].gridpool_id,
                    order_id    |-> rpcs[c].order_id])

\* Client.cancel_all_gridpool_orders up to its await
cancel_all_gridpool_orders(c) ==
    /\ rpcs[c].method = "CancelAllGridpoolOrders"
    /\ ScheduledRpc(c)
    /\ StubCall(c, [gridpool_id |-> rpcs[c].gridpool_id])

\* Client.get_gridpool_order up to its await
get_gridpool_order(c) ==
    /\ rpcs[c].method = "GetGridpoolOrder"
    /\ ScheduledRpc(c)
    /\ StubCall(c, [gridpool_id |-> rpcs[c].gridpool_id,
                    order_id    |-> rpcs[c].order_id])

\* Client.list_gridpool_orders up to its await
list_gridpool_orders(c) ==
    /\ rpcs[c].method = "ListGridpoolOrders"
    /\ ScheduledRpc(c)
    /\ LET a == rpcs[c].params
           gridpool_order_filer ==
              GridpoolOrderFilter(a.order_states, a.side, a.delivery_period,
                                  a.delivery_area, a.tag)
           pagination_params == PaginationParams(a.max_nr_orders, a.page_token)
       IN  StubCall(c, [gridpool_id |-> rpcs[c].gridpool_id,
                        filter      |-> GridpoolOrderFilter_to_pb(gridpool_order_filer),
                        pagination_params |->
                           PaginationParams_to_pb(pagination_params)])

\* Client.list_gridpool_trades up to its await
list_gridpool_trades(c) ==
    /\ rpcs[c].method = "ListGridpoolTrades"
    /\ ScheduledRpc(c)
    /\ LET a == rpcs[c].params
           gridpool_trade_filter ==
              GridpoolTradeFilter(a.trade_states, a.trade_id_lists, a.market_side,
                                  a.delivery_period, a.delivery_area)
           pagination_params == PaginationParams(a.max_nr_orders, a.page_token)
       IN  StubCall(c, [gridpool_id |-> rpcs[c].gridpool_id,
                        filter      |-> GridpoolTradeFilter_to_pb(gridpool_trade_filter),
                        pagination_params |->
                           PaginationParams_to_pb(pagination_params)])

\* Client.list_public_trades up to its await
list_public_trades(c) ==
    /\ rpcs[c].method = "ListPublicTrades"
    /\ ScheduledRpc(c)
    /\ LET a == rpcs[c].params
           public_trade_filter ==
              PublicTradeFilter(a.states, a.delivery_period, a.buy_delivery_area,
                                a.sell_delivery_area)
           pagination_params == PaginationParams(a.max_nr_orders, a.page_token)
       IN  StubCall(c, [filter |-> PublicTradeFilter_to_pb(public_trade_filter),
                        pagination_params |->
                           PaginationParams_to_pb(pagination_params)])

\* The outcome of a coroutine: it returned a value or raised an exception
Outcome(pc, result) == [pc |-> pc, result |-> result]

\* A comprehension that would leave out the items that fail to decode
DecodeAllSkipping(type, oid, items) ==
    LET ok == SelectSeq([i \in DOMAIN items |-> FromPb(type, oid + i, items[i])],
                        LAMBDA r : r # ValueError)
    IN  Outcome("returned", ok)

\* [X.from_pb(item) for item in items]: the items are decoded in order; the
\* exception of an item leaves the comprehension, and no list is built.
RECURSIVE DecodeAllFrom(_, _, _, _)
DecodeAllFrom(type, oid, items, i) ==
    IF i > Len(items)
    THEN Outcome("returned", << >>)
    ELSE LET item == FromPb(type, oid + i, items[i])
         IN  IF item = ValueError
             THEN Outcome("raised", ValueError)
             ELSE LET rest == DecodeAllFrom(type, oid, items, i + 1)
                  IN  IF rest.pc = "raised"
                      THEN rest
                      ELSE Outcome("returned", <<item>> \o rest.result)

DecodeAll(type, oid, items) == DecodeAllFrom(type, oid, items, 1)

\* What each operation does with the response once the await returns it
Return(method, oid, response) ==
    CASE method \in {"CreateGridpoolOrder", "CancelGridpoolOrder", "GetGridpoolOrder"} ->
            LET detail == OrderDetail_from_pb(oid, response.order_detail)
            IN  Outcome(IF detail = ValueError THEN "raised" ELSE "returned", detail)
      [] method = "CancelAllGridpoolOrders" ->
            Outcome("returned", response.gridpool_id)
      [] method = "ListGridpoolOrders" ->
            DecodeAll("OrderDetail", oid, response.order_detail_lists)
      [] method = "ListGridpoolTrades" ->
            DecodeAll("Trade", oid, response.trade_lists)
      [] method = "ListPublicTrades" ->
            DecodeAll("PublicTrade", oid, response.public_trade_lists)

\* The awaited stub call of coroutine c answers with a response: the
\* coroutine decodes it and returns, or raises what the decoding raised.
StubResponse(c, response) ==
    /\ rpcs[c].method # "UpdateGridpoolOrder"
    /\ rpcs[c].pc = "awaiting"
    /\ LET outcome == Return(rpcs[c].method, 100 * c, response)
       IN  rpcs' = [rpcs EXCEPT ![c].pc = outcome.pc,
                                ![c].result = Some(outcome.result)]
    /\ stub' = Replied(c, [response |-> response])
    /\ UNCHANGED <<gridpool_orders_streams, gridpool_trades_streams,
                   public_trades_streams, helpers, receivers, calls, conv>>

\* A coroutine that would call the stub again when its call failed
StubErrorRetried(c) ==
    /\ rpcs[c].method # "UpdateGridpoolOrder"
    /\ rpcs[c].pc = "awaiting"
    /\ Cardinality({i \in DOMAIN stub : stub[i].call = c}) = 1
    /\ stub' = Append(Replied(c, AioRpcError),
          [method  |-> rpcs[c].method,
           call    |-> c,
           request |-> (CHOOSE e \in {stub[i] : i \in DOMAIN stub} : e.call = c).request,
           reply   |-> None])
    /\ UNCHANGED <<gridpool_orders_streams, gridpool_trades_streams,
                   public_trades_streams, helpers, receivers, calls, rpcs, conv>>

\* The awaited stub call of coroutine c fails: no statement of the coroutine
\* catches the error, which leaves the coroutine.
StubError(c) ==
    /\ rpcs[c].method # "UpdateGridpoolOrder"
    /\ rpcs[c].pc = "awaiting"
    /\ rpcs' = [rpcs EXCEPT ![c].pc = "raised", ![c].result = Some(AioRpcError)]
    /\ stub' = Replied(c, AioRpcError)
    /\ UNCHANGED <<gridpool_orders_streams, gridpool_trades_streams,
                   public_trades_streams, helpers, receivers, calls, conv>>

\* The one-shot calls a client makes: one for each operation, and an update
\* with nothing to update
CreateArgs ==
    [delivery_area    |-> Area,
     delivery_period  |-> Period1,
     order_type       |-> "LIMIT",
     side             |-> "BUY",
     price            |-> Price(Decimal(1, 0), "EUR"),
     quantity         |-> Energy(Decimal(1, 0)),
     stop_price       |-> None,
     peak_price_delta |-> None,
     display_quantity |-> None,
     execution_option |-> None,
     valid_until      |-> None,
     payload          |-> None,
     tag              |-> Some("tag")]

NothingGiven == [f \in {UpdateFields[i] : i \in DOMAIN UpdateFields} |-> NO_VALUE]

ListOrdersArgs ==
    [order_states |-> Some(<<"ACTIVE">>), side |-> None, delivery_period |-> None,
     delivery_area |-> None, tag |-> None, max_nr_orders |-> Some(10),
     page_token |-> None]

ListTradesArgs ==
    [trade_states |-> None, trade_id_lists |-> Some(<<7>>), market_side |-> None,
     delivery_period |-> None, delivery_area |-> None, max_nr_orders |-> None,
     page_token |-> None]

ListPublicArgs ==
    [states |-> None, delivery_period |-> Some(Period1), buy_delivery_area |-> None,
     sell_delivery_area |-> None, max_nr_orders |-> None, page_token |-> Some("token")]

OneShot(method, gridpool_id, order_id, params) ==
    [method |-> method, gridpool_id |-> gridpool_id, order_id |-> order_id,
     params |-> params]

CallRequests ==
    {OneShot("CreateGridpoolOrder", 1, 0, CreateArgs),
     OneShot("UpdateGridpoolOrder", 1, 1, NothingGiven),
     OneShot("UpdateGridpoolOrder", 1, 1,
             [NothingGiven EXCEPT !.price = Some(Price(Decimal(1, 0), "EUR"))]),
     OneShot("CancelGridpoolOrder", 1, 1, << >>),
     OneShot("CancelAllGridpoolOrders", 1, 0, << >>),
     OneShot("GetGridpoolOrder", 1, 1, << >>),
     OneShot("ListGridpoolOrders", 1, 0, ListOrdersArgs),
     OneShot("ListGridpoolTrades", 1, 0, ListTradesArgs),
     OneShot("ListPublicTrades", 0, 0, ListPublicArgs)}

\* The sequences of at most n of the items
Lists(items, n) == UNION {[1..k -> items] : k \in 0..n}

\* The items of the list responses: for each kind, one that decodes and
\* one whose delivery period has the unspecified duration
ListItems(method) ==
    CASE method = "ListGridpoolOrders" ->
            {WireOrderDetail(1, WireOrder(1, duration, 1, 1), 1, 1, 1) :
                duration \in {2, 0}}
      [] method = "ListGridpoolTrades" ->
            {WireTrade(1, 1, duration, 1, 1) : duration \in {2, 0}}
      [] method = "ListPublicTrades" ->
            {WirePublicTrade(1, 1, duration, 1) : duration \in {2, 0}}

\* The responses the server may give to a call of the method
Responses(method) ==
    CASE method \in {"CreateGridpoolOrder", "CancelGridpoolOrder", "GetGridpoolOrder"} ->
            {[order_detail |-> WireOrderDetail(1, WireOrder(1, duration, 1, 1), 1, 1, 1)] :
                duration \in {2, 0}}
      [] method = "CancelAllGridpoolOrders" ->
            {[gridpool_id |-> 1]}
      [] method = "ListGridpoolOrders" ->
            {[order_detail_lists |-> l] : l \in Lists(ListItems(method), MaxListItems)}
      [] method = "ListGridpoolTrades" ->
            {[trade_lists |-> l] : l \in Lists(ListItems(method), MaxListItems)}
      [] method = "ListPublicTrades" ->
            {[public_trade_lists |-> l] : l \in Lists(ListItems(method), MaxListItems)}

----------------------------------------------------------------------------
(* The values the conversions of _types.py are applied to *)

\* The wire codes tried for an enumeration: every member value and one code
\* on either side of them
Codes(type) ==
    DOMAIN Members(type) \cup {-1, Cardinality(DOMAIN Members(type))}

Decimals == {Decimal(1, 0), Decimal(10, -1), Decimal(0, 0)}

\* Naive and aware datetimes
Datetimes ==
    {datetime(0, None), datetime(1, None), datetime(1, Some(0)), datetime(2, Some(1))}

Prices == {Price(d, c) : d \in Decimals, c \in {"EUR", "UNSPECIFIED"}}

Energies == {Energy(d) : d \in Decimals}

Areas ==
    {DeliveryArea(code, t) :
        code \in {"", "10YDE-EON------1"}, t \in MemberNames("EnergyMarketCodeType")}

StateDetails ==
    {StateDetail(s, r, a) :
        s \in MemberNames("OrderState"),
        r \in {"UNSPECIFIED", "ADD"},
        a \in {"UNSPECIFIED", "USER"}}

\* The arguments DeliveryPeriod is constructed with: start and the minutes
\* of the duration
PeriodArgs ==
    {[start |-> start, minutes |-> minutes] :
        start \in Datetimes, minutes \in {0, 5, 10, 15, 20, 30, 45, 60, 61}}

\* Delivery periods, each an object of its own
Periods == {DeliveryPeriod(1, start, 15) : start \in {datetime(1, None), datetime(1, Some(0))}}

Orders ==
    {[delivery_area    |-> Area,
      delivery_period  |-> period,
      type             |-> "LIMIT",
      side             |-> "BUY",
      price            |-> Price(Decimal(1, 0), "EUR"),
      quantity         |-> Energy(Decimal(1, 0)),
      stop_price       |-> stop_price,
      peak_price_delta |-> None,
      display_quantity |-> None,
      execution_option |-> execution_option,
      valid_until      |-> valid_until,
      payload          |-> payload,
      tag              |-> tag] :
        period \in Periods,
        stop_price \in {None, Some(Price(Decimal(1, 0), "EUR"))},
        execution_option \in {None, Some("UNSPECIFIED"), Some("AON")},
        valid_until \in {None, Some(datetime(1, None)), Some(datetime(1, Some(0)))},
        payload \in {None, Some({}), Some({<<"k", [string_value |-> "v"]>>})},
        tag \in {None, Some(""), Some("tag")}}

Trades ==
    {[id              |-> 1,
      order_id        |-> 1,
      side            |-> "BUY",
      delivery_area   |-> Area,
      delivery_period |-> period,
      execution_time  |-> execution_time,
      price           |-> Price(Decimal(1, 0), "EUR"),
      quantity        |-> Energy(Decimal(1, 0)),
      state           |-> state] :
        period \in Periods, execution_time \in Datetimes,
        state \in {"ACTIVE", "UNSPECIFIED"}}

PublicTrades ==
    {[public_trade_id    |-> 1,
      buy_delivery_area  |-> Area,
      sell_delivery_area |-> Area,
      delivery_period    |-> period,
      modification_time  |-> modification_time,
      price              |-> Price(Decimal(1, 0), "EUR"),
      quantity           |-> Energy(Decimal(1, 0)),
      state              |-> state] :
        period \in Periods, modification_time \in Datetimes,
        state \in {"ACTIVE", "UNSPECIFIED"}}

OrderDetails ==
    {[order_id          |-> 1,
      order             |-> order,
      state_detail      |-> StateDetail(state, "ADD", "USER"),
      open_quantity     |-> Energy(Decimal(1, 0)),
      filled_quantity   |-> Energy(Decimal(0, 0)),
      create_time       |-> time,
      modification_time |-> time] :
        order \in {o \in Orders :
                      /\ o.stop_price = None /\ o.execution_option = None
                      /\ o.valid_until = None /\ o.payload = None
                      /\ o.tag = None},
        state \in {"ACTIVE", "UNSPECIFIED"},
        time \in Datetimes}

\* UpdateOrder values: every field None, or some of them given
UpdateOrders ==
    {UpdateOrder(price, None, None, None, None, execution_option, valid_until,
                 payload, tag) :
        price \in {None, Some(Price(Decimal(1, 0), "EUR"))},
        execution_option \in {None, Some("UNSPECIFIED")},
        valid_until \in {None, Some(datetime(1, Some(0)))},
        payload \in {None, Some({<<"k", [string_value |-> "v"]>>})},
        tag \in {None, Some(""), Some("tag")}}

\* PaginationParams values
Paginations ==
    {PaginationParams(page_size, page_token) :
        page_size \in {None, Some(0), Some(10)},
        page_token \in {None, Some(""), Some("token")}}

\* Filter values: every field None, or some of them given
OrderFilters ==
    {GridpoolOrderFilter(order_states, side, delivery_period, delivery_area, tag) :
        order_states \in {None, Some(<< >>), Some(<<"ACTIVE">>)},
        side \in {None, Some("UNSPECIFIED"), Some("BUY")},
        delivery_period \in {None, Some(Period1)},
        delivery_area \in {None, Some(Area)},
        tag \in {None, Some("tag")}}

TradeFilters ==
    {GridpoolTradeFilter(trade_states, trade_id_lists, side, delivery_period,
                         delivery_area) :
        trade_states \in {None, Some(<<"ACTIVE">>)},
        trade_id_lists \in {None, Some(<<7>>)},
        side \in {None, Some("BUY")},
        delivery_period \in {None, Some(Period1)},
        delivery_area \in {None, Some(Area)}}

PublicFilters ==
    {PublicTradeFilter(states, delivery_period, buy_delivery_area,
                       sell_delivery_area) :
        states \in {None, Some(<<"ACTIVE">>)},
        delivery_period \in {None, Some(Period1)},
        buy_delivery_area \in {None, Some(Area)},
        sell_delivery_area \in {None, Some(Area)}}

\* UpdateOrder messages with fields set and unset
WireUpdateOrders ==
    {[price            |-> price,
      quantity         |-> None,
      stop_price       |-> None,
      peak_price_delta |-> None,
      display_quantity |-> None,
      execution_option |-> execution_option,
      valid_until      |-> valid_until,
      payload          |-> payload,
      tag              |-> tag] :
        price \in {None, Some(WirePrice(1))},
        execution_option \in {None, Some(0)},
        valid_until \in {None, Some(1)},
        payload \in {None, Some([fields |-> {<<"k", [string_value |-> "v"]>>}])},
        tag \in {None, Some(""), Some("tag")}}

\* Wire messages with recognised and unrecognised codes in their
\* enumerated fields
DurationCodes == Codes("DeliveryDuration")

WirePeriods ==
    {[start |-> start, duration |-> duration] :
        start \in {0, 1}, duration \in DurationCodes}

WireOrders ==
    {WireOrder(1, duration, type, side) :
        duration \in DurationCodes, type \in {-1, 1, 8}, side \in {1, 3}}

WireTrades ==
    {WireTrade(1, 1, duration, side, state) :
        duration \in DurationCodes, side \in {1, 3}, state \in {1, 9}}

WirePublicTrades ==
    {WirePublicTrade(1, 1, duration, state) :
        duration \in DurationCodes, state \in {1, 9}}

WireOrderDetails ==
    {WireOrderDetail(1, WireOrder(1, duration, 1, side), state, state_reason,
                     market_actor) :
        duration \in DurationCodes, side \in {1, 3}, state \in {1, 10},
        state_reason \in {1, 14}, market_actor \in {1, 4}}

\* The Python values of a record type
Values(type) ==
    CASE type = "Price"        -> Prices
      [] type = "Energy"       -> Energies
      [] type = "DeliveryArea" -> Areas
      [] type = "StateDetail"  -> StateDetails
      [] type = "Order"        -> Orders
      [] type = "Trade"        -> Trades
      [] type = "PublicTrade"  -> PublicTrades
      [] type = "OrderDetail"  -> OrderDetails
      [] type = "UpdateOrder"         -> UpdateOrders
      [] type = "PaginationParams"    -> Paginations
      [] type = "GridpoolOrderFilter" -> OrderFilters
      [] type = "GridpoolTradeFilter" -> TradeFilters
      [] type = "PublicTradeFilter"   -> PublicFilters

\* The wire messages of a type
Messages(type) ==
    CASE type = "DeliveryPeriod" -> WirePeriods
      [] type = "Order"          -> WireOrders
      [] type = "Trade"          -> WireTrades
      [] type = "PublicTrade"    -> WirePublicTrades
      [] type = "OrderDetail"    -> WireOrderDetails
      [] type = "UpdateOrder"    -> WireUpdateOrders

\* A value in its first form
Start(form, type, val) == <<[type |-> type, trace |-> <<Form(form, type, val)>>]>>

\* A client with one value of _types.py at hand: a wire code or a member of
\* an enumeration, the arguments of a DeliveryPeriod, a wire message or a
\* Python value of a record type
InitTypes ==
    /\ gridpool_orders_streams = {}
    /\ gridpool_trades_streams = {}
    /\ public_trades_streams = {}
    /\ helpers = << >>
    /\ receivers = << >>
    /\ calls = << >>
    /\ rpcs = << >>
    /\ stub = << >>
    /\ \/ \E type \in EnumTypes : \E code \in Codes(type) :
             conv = Start("pb", type, code)
       \/ \E type \in EnumTypes : \E member \in MemberNames(type) :
             conv = Start("py", type, member)
       \/ \E args \in PeriodArgs : conv = Start("args", "DeliveryPeriod", args)
       \/ \E type \in DecodedRecordTypes \cup {"DeliveryPeriod", "UpdateOrder"} :
             \E message \in Messages(type) : conv = Start("pb", type, message)
       \/ \E type \in RecordTypes \cup RequestTypes : \E value \in Values(type) :
             conv = Start("py", type, value)

\* The from_pb and to_pb calls made on the value so far
Conversions(trace) ==
    Len(trace) - (IF trace[1].form = "args" THEN 2 ELSE 1)

\* DeliveryPeriod(start, duration)
Construct ==
    /\ conv # << >>
    /\ Last(conv[1].trace).form = "args"
    /\ LET args   == Last(conv[1].trace).val
           result == DeliveryPeriod(1, args.start, args.minutes)
       IN  conv' = <<[conv[1] EXCEPT !.trace =
                        Append(@, Form(IF result = ValueError THEN "raised" ELSE "py",
                                       "DeliveryPeriod", result))]>>
    /\ UNCHANGED <<gridpool_orders_streams, gridpool_trades_streams,
                   public_trades_streams, helpers, receivers, calls, rpcs, stub>>

\* type.from_pb(message) on the wire form of the value
from_pb ==
    /\ conv # << >>
    /\ Last(conv[1].trace).form = "pb"
    /\ Conversions(conv[1].trace) < MaxConversions
    /\ LET type   == conv[1].type
           result == FromPb(type, 100 + Len(conv[1].trace), Last(conv[1].trace).val)
       IN  conv' = <<[conv[1] EXCEPT !.trace =
                        Append(@, Form(IF Raised(type, result) THEN "raised" ELSE "py",
                                       type, result))]>>
    /\ UNCHANGED <<gridpool_orders_streams, gridpool_trades_streams,
                   public_trades_streams, helpers, receivers, calls, rpcs, stub>>

\* value.to_pb() on the Python form of the value
to_pb ==
    /\ conv # << >>
    /\ Last(conv[1].trace).form = "py"
    /\ Conversions(conv[1].trace) < MaxConversions
    /\ LET type == conv[1].type
       IN  conv' = <<[conv[1] EXCEPT !.trace =
                        Append(@, Form("pb", type, ToPb(type, Last(conv[1].trace).val)))]>>
    /\ UNCHANGED <<gridpool_orders_streams, gridpool_trades_streams,
                   public_trades_streams, helpers, receivers, calls, rpcs, stub>>

----------------------------------------------------------------------------
(* The pump of a helper and the consumers, from the design document *)

\* The number of responses the upstream streams have produced so far
RECURSIVE SentTotal(_)
SentTotal(hs) ==
    IF hs = << >> THEN 0 ELSE hs[1].sent + SentTotal(Tail(hs))

\* The pump of helper h reads the next response, transforms it and pushes
\* the result to every registered consumer.
PumpItem(h, max) ==
    /\ helpers[h].status = "running"
    /\ SentTotal(helpers) < max
    /\ LET n    == helpers[h].sent + 1
           item == PumpedItem(helpers[h].kind, h, n)
       IN  /\ helpers' = [helpers EXCEPT ![h].sent = n]
           /\ receivers' = [r \in DOMAIN receivers |->
                              IF r \in Consumers(receivers, h)
                              THEN [receivers[r] EXCEPT
                                      !.rcvd = Deliver(receivers[r].rcvd, item)]
                              ELSE receivers[r]]
    /\ UNCHANGED <<gridpool_orders_streams, gridpool_trades_streams,
                   public_trades_streams, calls>>
    /\ UNCHANGED <<rpcs, stub, conv>>

\* The upstream call of helper h terminates, cleanly ("ended") or with an
\* error ("failed"): every registered consumer is closed with that outcome.
\* The helper holds no reference to the dicts of the Client.
PumpEnd(h, outcome) ==
    /\ helpers[h].status = "running"
    /\ helpers' = [helpers EXCEPT ![h].status = outcome]
    /\ receivers' = [r \in DOMAIN receivers |->
                       IF r \in Consumers(receivers, h)
                       THEN [receivers[r] EXCEPT !.closed = outcome]
                       ELSE receivers[r]]
    /\ UNCHANGED <<gridpool_orders_streams, gridpool_trades_streams,
                   public_trades_streams, calls>>
    /\ UNCHANGED <<rpcs, stub, conv>>

\* The owner of receiver r drops it while it is open (dropping a handle that
\* was closed by the termination of its stream changes nothing).
Detach(r) ==
    /\ receivers[r].attached
    /\ receivers[r].closed = "open"
    /\ LET rs == [receivers EXCEPT ![r].attached = FALSE]
           h  == receivers[r].helper
       IN  /\ receivers' = rs
           /\ helpers' = IF helpers[h].status = "running"
                         THEN [helpers EXCEPT ![h].status = StatusAfterDetach(rs, h)]
                         ELSE helpers
    /\ UNCHANGED <<gridpool_orders_streams, gridpool_trades_streams,
                   public_trades_streams, calls>>
    /\ UNCHANGED <<rpcs, stub, conv>>

NextFor(requests, max) ==
    \/ \E req \in requests : Issue(req)
    \/ \E c \in DOMAIN calls : stream_gridpool_orders(c)
    \/ \E c \in DOMAIN calls : stream_gridpool_trades(c)
    \/ \E c \in DOMAIN calls : stream_public_trades(c)
    \/ \E h \in DOMAIN helpers : PumpItem(h, max)
    \/ \E h \in DOMAIN helpers : \E outcome \in {"ended", "failed"} : PumpEnd(h, outcome)
    \/ \E r \in DOMAIN receivers : Detach(r)

\* A client that subscribes to few keys, with streams of up to MaxItems
Next == NextFor(StreamRequests, MaxItems)

Spec == Init /\ [][Next]_vars

\* A client that subscribes with every kind of key, with short streams
NextKeys == NextFor(KeyRequests, MaxKeyItems)

SpecKeys == Init /\ [][NextKeys]_vars

\* The streams a client that also updates orders subscribes to
UpdateStreamRequests ==
    {[kind |-> "gridpool_orders", gridpool_id |-> 1,
      args |-> OrdersArgs(None, None, None, None, None)],
     [kind |-> "public_trades", gridpool_id |-> 0,
      args |-> PublicArgs(None, None, None, None)]}

\* A client that subscribes to streams and updates an order
NextUpdate ==
    \/ \E req \in UpdateStreamRequests : Issue(req)
    \/ \E c \in DOMAIN calls : stream_gridpool_orders(c)
    \/ \E c \in DOMAIN calls : stream_public_trades(c)
    \/ IssueUpdate(1, 1)
    \/ \E c \in DOMAIN rpcs : update_gridpool_order(c)
    \/ \E c \in DOMAIN rpcs : \E n \in 1..2 : UpdateGridpoolOrderResponse(c, n)
    \/ \E c \in DOMAIN rpcs : UpdateGridpoolOrderError(c)

SpecUpdate == Init /\ [][NextUpdate]_vars

\* A client that makes one-shot calls
NextCalls ==
    \/ \E req \in CallRequests : IssueCall(req)
    \/ \E c \in DOMAIN rpcs : create_gridpool_order(c)
    \/ \E c \in DOMAIN rpcs : update_gridpool_order(c)
    \/ \E c \in DOMAIN rpcs : cancel_gridpool_order(c)
    \/ \E c \in DOMAIN rpcs : cancel_all_gridpool_orders(c)
    \/ \E c \in DOMAIN rpcs : get_gridpool_order(c)
    \/ \E c \in DOMAIN rpcs : list_gridpool_orders(c)
    \/ \E c \in DOMAIN rpcs : list_gridpool_trades(c)
    \/ \E c \in DOMAIN rpcs : list_public_trades(c)
    \/ \E c \in DOMAIN rpcs : \E n \in 1..2 : UpdateGridpoolOrderResponse(c, n)
    \/ \E c \in DOMAIN rpcs : UpdateGridpoolOrderError(c)
    \/ \E c \in DOMAIN rpcs :
          /\ rpcs[c].method # "UpdateGridpoolOrder"
          /\ \E response \in Responses(rpcs[c].method) : StubResponse(c, response)
    \/ \E c \in DOMAIN rpcs : StubError(c)

SpecCalls == Init /\ [][NextCalls]_vars

\* The conversions of _types.py applied to one value
NextTypes ==
    \/ Construct
    \/ from_pb
    \/ to_pb

SpecTypes == InitTypes /\ [][NextTypes]_vars

----------------------------------------------------------------------------
(* Vocabulary of the properties *)

Returned(c) == calls[c].pc = "returned"

\* The receiver a returned call handed to its caller
ReceiverOf(c) == receivers[calls[c].rcv]

\* A key is registered in the dict of its kind
Registered(kind, key) ==
    \E e \in Streams(kind) : StreamKeyEq(kind, e.key, key)

\* The helpers constructed for a key of a kind
HelpersOf(kind, key) ==
    {h \in DOMAIN helpers :
        helpers[h].kind = kind /\ StreamKeyEq(kind, helpers[h].key, key)}

\* The value of an optional delivery period: its start and its duration
PeriodValue(p) ==
    IF p = None THEN None ELSE Some(<<p[1].start, p[1].duration>>)

\* A key with every object replaced by its field values
KeyValue(kind, key) ==
    IF kind = "public_trades"
    THEN <<[key[1] EXCEPT !.delivery_period = PeriodValue(@)]>>
    ELSE <<key[1], [key[2] EXCEPT !.delivery_period = PeriodValue(@)]>>

\* Two calls name the same stream, field value by field value
SameKeyValue(c1, c2) ==
    /\ calls[c1].kind = calls[c2].kind
    /\ KeyValue(calls[c1].kind, KeyOf(calls[c1]))
         = KeyValue(calls[c2].kind, KeyOf(calls[c2]))

\* The i-th item the upstream of helper h produces, decoded
Expected(h, i) ==
    Transform(helpers[h].kind, (100 * h) + i, UpstreamResponse(helpers[h].kind, i))

\* The stream that was opened for the key of call c
StreamOf(c) ==
    CHOOSE h \in DOMAIN helpers :
        /\ helpers[h].kind = calls[c].kind
        /\ KeyValue(helpers[h].kind, helpers[h].key)
             = KeyValue(calls[c].kind, KeyOf(calls[c]))
        /\ \A o \in DOMAIN helpers :
             (/\ helpers[o].kind = calls[c].kind
              /\ KeyValue(helpers[o].kind, helpers[o].key)
                   = KeyValue(calls[c].kind, KeyOf(calls[c]))) => h <= o

Listening(r) == r.attached /\ r.closed = "open"

----------------------------------------------------------------------------
(* C1 *)

\* C1: in every reachable state, no two helpers have been constructed for
\* the same key of the same dict (keys compared as the dict compares them),
\* every dict entry maps its key to the one helper constructed for it, and
\* every helper is registered.
C1_OneHelperPerKey ==
    /\ \A h1, h2 \in DOMAIN helpers :
          (h1 # h2 /\ helpers[h1].kind = helpers[h2].kind)
             => ~StreamKeyEq(helpers[h1].kind, helpers[h1].key, helpers[h2].key)
    /\ \A kind \in Kinds : \A e \in Streams(kind) :
          /\ e.helper \in DOMAIN helpers
          /\ HelpersOf(kind, e.key) = {e.helper}
    /\ \A h \in DOMAIN helpers :
          \E e \in Streams(helpers[h].kind) : e.helper = h

\* Two calls with the same delivery-period object have returned and one
\* helper exists.
C1_Witness ==
    /\ Len(calls) = 2
    /\ Returned(1) /\ Returned(2)
    /\ calls[1].kind = "gridpool_orders"
    /\ calls[1].args.delivery_period = Some(Period1)
    /\ calls[2] = [calls[1] EXCEPT !.rcv = calls[2].rcv, !.early = calls[2].early]
    /\ Len(helpers) = 1
    /\ Cardinality(gridpool_orders_streams) = 1

----------------------------------------------------------------------------
(* C2 *)

\* C2: two calls of the same kind with equal keys that were both issued
\* while no stream was registered for the key: once the first has returned,
\* exactly one helper exists for the key; once both have returned, both
\* receivers are attached to that helper, and every item the stream produces
\* after both were registered is in the buffer of each receiver that is
\* still listening.
C2_ConcurrentCallsCoalesce ==
    \A c1, c2 \in DOMAIN calls :
       (/\ c1 < c2
        /\ calls[c1].kind = calls[c2].kind
        /\ calls[c1].early /\ calls[c2].early
        /\ StreamKeyEq(calls[c1].kind, KeyOf(calls[c1]), KeyOf(calls[c2])))
       =>
       /\ calls[c1].pc # "raised" /\ calls[c2].pc # "raised"
       /\ (Returned(c1) \/ Returned(c2)) =>
             Cardinality(HelpersOf(calls[c1].kind, KeyOf(calls[c1]))) = 1
       /\ (Returned(c1) /\ Returned(c2)) =>
             LET r1 == ReceiverOf(c1)
                 r2 == ReceiverOf(c2)
                 h  == r1.helper
                 m  == IF r1.joined > r2.joined THEN r1.joined ELSE r2.joined
             IN  /\ calls[c1].rcv # calls[c2].rcv
                 /\ r2.helper = h
                 /\ HelpersOf(calls[c1].kind, KeyOf(calls[c1])) = {h}
                 /\ \A i \in (m + 1)..helpers[h].sent :
                      \A r \in {r1, r2} :
                         Listening(r) =>
                            /\ Len(r.rcvd) >= i - r.joined
                            /\ r.rcvd[i - r.joined] = Expected(h, i)

\* Both calls were pending together before a stream existed, both returned
\* and both received an item that arrived afterwards.
C2_Witness ==
    /\ Len(calls) = 2
    /\ calls[1].early /\ calls[2].early
    /\ calls[1].kind = calls[2].kind
    /\ StreamKeyEq(calls[1].kind, KeyOf(calls[1]), KeyOf(calls[2]))
    /\ Returned(1) /\ Returned(2)
    /\ Len(helpers) = 1
    /\ helpers[1].sent = 2
    /\ Len(ReceiverOf(1).rcvd) = 2
    /\ Len(ReceiverOf(2).rcvd) = 2

----------------------------------------------------------------------------
(* C3 *)

\* C3: whenever a stream_* call returns, it returns a receiver that did not
\* exist before the call and that no other call holds; when the key was
\* registered before the call, no helper is constructed and the receiver
\* belongs to the registered helper; when it was not, exactly one helper is
\* constructed, and the receiver belongs to it.  No other step constructs a
\* helper.
C3_NewReceiverSharedStream ==
    [][/\ \A c \in DOMAIN calls :
            (calls[c].pc = "pending" /\ calls'[c].pc = "returned") =>
               LET kind == calls[c].kind
                   key  == KeyOf(calls[c])
                   rcv  == calls'[c].rcv
               IN  /\ rcv = Len(receivers) + 1
                   /\ Len(receivers') = Len(receivers) + 1
                   /\ \A d \in DOMAIN calls : d # c => calls'[d].rcv # rcv
                   /\ Registered(kind, key) =>
                         /\ helpers' = helpers
                         /\ HelpersOf(kind, key) = {receivers'[rcv].helper}
                   /\ ~Registered(kind, key) =>
                         /\ Len(helpers') = Len(helpers) + 1
                         /\ receivers'[rcv].helper = Len(helpers')
       /\ Len(helpers') # Len(helpers) =>
            \E c \in DOMAIN calls :
               /\ calls[c].pc = "pending" /\ calls'[c].pc = "returned"
               /\ ~Registered(calls[c].kind, KeyOf(calls[c]))
      ]_vars

\* Two calls for the public trades returned two receivers of one helper.
C3_Witness ==
    /\ Len(calls) = 2
    /\ calls[1].kind = "public_trades" /\ calls[2].kind = "public_trades"
    /\ Returned(1) /\ Returned(2)
    /\ calls[1].rcv # calls[2].rcv
    /\ ReceiverOf(1).helper = ReceiverOf(2).helper
    /\ Len(helpers) = 1
    /\ Len(receivers) = 2

----------------------------------------------------------------------------
(* C4 *)

\* C4: any two returned calls of the same kind whose gridpool id and filter
\* field values are identical (a delivery period counted by its start and
\* duration) hold receivers of the same helper.
C4_StructuralKeysShare ==
    \A c1, c2 \in DOMAIN calls :
       (Returned(c1) /\ Returned(c2) /\ SameKeyValue(c1, c2))
          => ReceiverOf(c1).helper = ReceiverOf(c2).helper

----------------------------------------------------------------------------
(* C5 *)

\* C5: two returned calls whose kinds differ, or whose keys differ in the
\* gridpool id or in the value of a filter field, hold receivers of
\* different helpers; and the helper behind the receiver of a call was
\* constructed for a key with the field values of the call's key.
C5_DistinctKeysNeverShare ==
    /\ \A c1, c2 \in DOMAIN calls :
          (Returned(c1) /\ Returned(c2) /\ ~SameKeyValue(c1, c2))
             => ReceiverOf(c1).helper # ReceiverOf(c2).helper
    /\ \A c \in DOMAIN calls :
          Returned(c) =>
             LET h == helpers[ReceiverOf(c).helper]
             IN  /\ h.kind = calls[c].kind
                 /\ KeyValue(h.kind, h.key) = KeyValue(calls[c].kind, KeyOf(calls[c]))

\* Two calls for the orders of gridpool 1 that differ in the tag alone have
\* returned receivers of two helpers.
C5_Witness ==
    /\ Len(calls) = 2
    /\ Returned(1) /\ Returned(2)
    /\ calls[1].kind = "gridpool_orders" /\ calls[2].kind = "gridpool_orders"
    /\ calls[1].gridpool_id = calls[2].gridpool_id
    /\ calls[1].args.tag = None
    /\ calls[2].args = [calls[1].args EXCEPT !.tag = Some("tag")]
    /\ ReceiverOf(1).helper # ReceiverOf(2).helper
    /\ Cardinality(gridpool_orders_streams) = 2

----------------------------------------------------------------------------
(* C6 *)

\* C6: a receiver that was registered with the stream of its key before the
\* first item arrived holds exactly the decoded items 1, 2, ... of that
\* stream, in the order the upstream produced them, each once; while it is
\* listening it holds all the items produced so far.
C6_FanOutInUpstreamOrder ==
    \A c \in DOMAIN calls :
       (Returned(c) /\ ReceiverOf(c).joined = 0) =>
          LET r == ReceiverOf(c)
              h == StreamOf(c)
          IN  /\ Len(r.rcvd) <= helpers[h].sent
              /\ \A k \in 1..Len(r.rcvd) : r.rcvd[k] = Expected(h, k)
              /\ Listening(r) => Len(r.rcvd) = helpers[h].sent

\* Two consumers registered before the first item have both observed the
\* three items of the stream.
C6_Witness ==
    /\ Len(calls) = 2
    /\ Returned(1) /\ Returned(2)
    /\ ReceiverOf(1).helper = ReceiverOf(2).helper
    /\ ReceiverOf(1).joined = 0 /\ ReceiverOf(2).joined = 0
    /\ helpers[ReceiverOf(1).helper].sent = 3
    /\ ReceiverOf(1).rcvd = <<Expected(1, 1), Expected(1, 2), Expected(1, 3)>>
    /\ ReceiverOf(2).rcvd = ReceiverOf(1).rcvd

----------------------------------------------------------------------------
(* C7 *)

\* C7: a receiver registered after n >= 1 items of its stream had been
\* delivered holds none of the items 1..n: its k-th item is item n + k of
\* the stream, and while it is listening it holds every item after the n-th.
C7_LateJoinerNoReplay ==
    \A c \in DOMAIN calls :
       (Returned(c) /\ ReceiverOf(c).joined >= 1) =>
          LET r == ReceiverOf(c)
              h == StreamOf(c)
          IN  /\ r.joined + Len(r.rcvd) <= helpers[h].sent
              /\ \A k \in 1..Len(r.rcvd) :
                    /\ r.rcvd[k] = Expected(h, r.joined + k)
                    /\ \A i \in 1..r.joined : r.rcvd[k] # Expected(h, i)
              /\ Listening(r) => Len(r.rcvd) = helpers[h].sent - r.joined

\* The second consumer joined after the first item had been delivered to the
\* first consumer, and has received the second item only.
C7_Witness ==
    /\ Len(calls) = 2
    /\ Returned(1) /\ Returned(2)
    /\ ReceiverOf(1).helper = ReceiverOf(2).helper
    /\ ReceiverOf(1).joined = 0
    /\ ReceiverOf(2).joined = 1
    /\ Len(ReceiverOf(1).rcvd) = 2
    /\ ReceiverOf(2).rcvd = <<Expected(ReceiverOf(2).helper, 2)>>

----------------------------------------------------------------------------
(* C8 *)

\* C8: when the upstream of a helper has terminated (ended or failed), every
\* consumer registered with it has received the terminal signal, no dict
\* entry maps a key to the helper, and no receiver was handed out on the
\* helper after it had terminated.
C8_TerminationClearsEntry ==
    \A h \in DOMAIN helpers :
       helpers[h].status \in {"ended", "failed"} =>
          /\ \A r \in DOMAIN receivers :
                (receivers[r].helper = h /\ receivers[r].attached)
                   => receivers[r].closed # "open"
          /\ \A e \in Streams(helpers[h].kind) : e.helper # h
          /\ \A r \in DOMAIN receivers :
                receivers[r].helper = h => receivers[r].born = "running"

----------------------------------------------------------------------------
(* C9 *)

\* C9: a call that returns after every consumer of the stream of its key has
\* detached gets a receiver of a newly opened stream: no receiver is handed
\* out on a helper whose consumers had all detached.
C9_ReopenAfterAllDetached ==
    \A r \in DOMAIN receivers :
       receivers[r].born # "cancelled"

----------------------------------------------------------------------------
(* C10 *)

\* C10: a step in which a consumer detaches leaves every other consumer of
\* the same stream as it was (buffer, registration, open handle), and leaves
\* the stream running if another consumer is registered; a stream becomes
\* cancelled only in a step after which no consumer is registered with it.
C10_DetachLeavesOthers ==
    [][/\ \A d \in DOMAIN receivers :
            (receivers[d].attached /\ ~receivers'[d].attached) =>
               \A r \in DOMAIN receivers :
                  (r # d /\ receivers[r].helper = receivers[d].helper) =>
                     /\ receivers'[r] = receivers[r]
                     /\ receivers[r].attached =>
                          helpers'[receivers[r].helper] = helpers[receivers[r].helper]
       /\ \A h \in DOMAIN helpers :
            (helpers[h].status # "cancelled" /\ helpers'[h].status = "cancelled") =>
               ~\E r \in DOMAIN receivers' :
                   receivers'[r].helper = h /\ receivers'[r].attached
      ]_vars

\* One consumer of a stream has detached; the other one still listens and
\* has received an item since.
C10_Witness ==
    /\ Len(receivers) = 2
    /\ receivers[1].helper = receivers[2].helper
    /\ ~receivers[1].attached
    /\ Listening(receivers[2])
    /\ helpers[receivers[1].helper].status = "running"
    /\ Len(receivers[2].rcvd) = Len(receivers[1].rcvd) + 1
    /\ receivers[2].joined = receivers[1].joined

----------------------------------------------------------------------------
(* update_gridpool_order *)

\* The names in the field mask of a request
MaskOf(request) ==
    {request.update_mask.paths[i] : i \in DOMAIN request.update_mask.paths}

\* The requests the stub received from call c
RequestsOf(c) == {i \in DOMAIN stub : stub[i].call = c}

\* The state of the client outside the update calls
ClientState ==
    <<gridpool_orders_streams, gridpool_trades_streams, public_trades_streams,
      helpers, receivers, calls>>

\* C11: when update_gridpool_order runs with every updatable parameter left
\* at NO_VALUE, it raises ValueError, the stub is not called and nothing of
\* the client changes.
C11_NothingGivenRaises ==
    [][\A c \in DOMAIN rpcs :
          (/\ rpcs[c].pc = "pending"
           /\ c \in DOMAIN rpcs'
           /\ rpcs'[c].pc # "pending"
           /\ Given(rpcs[c].params) = {})
          => /\ rpcs'[c].pc = "raised"
             /\ rpcs'[c].result = Some(ValueError)
             /\ stub' = stub
             /\ ClientState' = ClientState]_vars

\* An update call with nothing given has raised on a client that holds a
\* registered stream.
C11_Witness ==
    /\ public_trades_streams # {}
    /\ \E c \in DOMAIN rpcs :
          /\ Given(rpcs[c].params) = {}
          /\ rpcs[c].pc = "raised"

\* C12: every update call that got past the validation sent one request
\* whose field mask names exactly the parameters that were given, each once.
C12_MaskIsExactlyTheGiven ==
    \A c \in DOMAIN rpcs :
        (Given(rpcs[c].params) # {} /\ rpcs[c].pc # "pending")
        => /\ Cardinality(RequestsOf(c)) = 1
           /\ \A i \in RequestsOf(c) :
                 /\ MaskOf(stub[i].request) = Given(rpcs[c].params)
                 /\ Len(stub[i].request.update_mask.paths)
                       = Cardinality(Given(rpcs[c].params))

\* A call with exactly one parameter given as a value has returned, and the
\* mask of its request names that parameter.
C12_Witness ==
    \E c \in DOMAIN rpcs :
        /\ rpcs[c].pc = "returned"
        /\ Given(rpcs[c].params) = {"price"}
        /\ rpcs[c].params.price # None
        /\ \E i \in RequestsOf(c) :
              stub[i].request.update_mask.paths = <<"price">>

\* C13: in every request, a parameter given as None is named in the mask and
\* unset in the payload, and a parameter left at NO_VALUE is neither named
\* in the mask nor set in the payload.
C13_NoneInMaskNoValueNot ==
    \A i \in DOMAIN stub :
        LET params  == rpcs[stub[i].call].params
            request == stub[i].request
        IN  \A f \in DOMAIN params :
               /\ params[f] = None
                  => /\ f \in MaskOf(request)
                     /\ request.update_order_fields[f] = None
               /\ params[f] = NO_VALUE
                  => /\ f \notin MaskOf(request)
                     /\ request.update_order_fields[f] = None

\* A request was sent for a call with one parameter None and another left
\* at NO_VALUE.
C13_Witness ==
    \E i \in DOMAIN stub :
        /\ rpcs[stub[i].call].params.tag = None
        /\ rpcs[stub[i].call].params.price = NO_VALUE
        /\ "tag" \in MaskOf(stub[i].request)
        /\ "price" \notin MaskOf(stub[i].request)

\* C14: in every request, a parameter given as a value is named in the mask
\* and set in the payload.
C14_ValueIsEncoded ==
    \A i \in DOMAIN stub :
        LET params  == rpcs[stub[i].call].params
            request == stub[i].request
        IN  \A f \in DOMAIN params :
               (params[f] # NO_VALUE /\ params[f] # None)
               => /\ f \in MaskOf(request)
                  /\ request.update_order_fields[f] # None

----------------------------------------------------------------------------
(* The conversions of _types.py *)

\* The trace of the value at hand
Trace == conv[1].trace

\* The steps of the trace that were followed by `n` conversions
Steps(n) == IF conv = << >> THEN {} ELSE {i \in DOMAIN Trace : i + n <= Len(Trace)}

\* The wire code of the UNSPECIFIED member
UnspecifiedCode(type) ==
    CHOOSE c \in DOMAIN Members(type) : Members(type)[c] = "UNSPECIFIED"

\* The member a wire code stands for, UNSPECIFIED when it stands for none
MemberOf(type, code) ==
    IF code \in DOMAIN Members(type) THEN Members(type)[code] ELSE "UNSPECIFIED"

\* C15: for every enumeration, from_pb of a wire code that is no member
\* value returns the UNSPECIFIED member and does not raise.
C15_UnknownCodeIsUnspecified ==
    \A i \in Steps(1) :
        (/\ conv[1].type \in EnumTypes
         /\ Trace[i].form = "pb"
         /\ Trace[i].val \notin DOMAIN Members(conv[1].type))
        => /\ Trace[i + 1].form = "py"
           /\ Trace[i + 1].val = "UNSPECIFIED"

\* Currency.from_pb was applied to a code above every member value.
C15_Witness ==
    /\ conv # << >>
    /\ conv[1].type = "Currency"
    /\ Trace[1].form = "pb"
    /\ Trace[1].val = 11
    /\ Len(Trace) >= 2

\* C16: for every enumeration, a member encoded and decoded is the same
\* member, a recognised code decoded and encoded is the same code, and an
\* unrecognised code comes back as the code of UNSPECIFIED.
C16_EnumRoundTrip ==
    \A i \in Steps(2) :
        conv[1].type \in EnumTypes
        => /\ Trace[i].form = "py" => Trace[i + 2].val = Trace[i].val
           /\ Trace[i].form = "pb"
              => Trace[i + 2].val =
                    IF Trace[i].val \in DOMAIN Members(conv[1].type)
                    THEN Trace[i].val
                    ELSE UnspecifiedCode(conv[1].type)

\* The TradeState member RECALL was encoded and decoded again.
C16_Witness ==
    /\ conv # << >>
    /\ conv[1].type = "TradeState"
    /\ Trace[1].form = "py"
    /\ Trace[1].val = "RECALL"
    /\ Len(Trace) = 3

\* The delivery period of a wire message of a record type
WirePeriodOf(type, message) ==
    IF type = "OrderDetail"
    THEN message.order.delivery_period
    ELSE message.delivery_period

\* The duration code is one of the four durations
RecognisedDuration(code) ==
    MemberOf("DeliveryDuration", code) # "UNSPECIFIED"

\* Every enumerated field of the record holds the member its wire code
\* stands for, UNSPECIFIED for a code that stands for none
EnumFieldsDecoded(type, message, record) ==
    CASE type = "Order" ->
            /\ record.type = MemberOf("OrderType", message.type)
            /\ record.side = MemberOf("MarketSide", message.side)
      [] type = "Trade" ->
            /\ record.side = MemberOf("MarketSide", message.side)
            /\ record.state = MemberOf("TradeState", message.state)
      [] type = "PublicTrade" ->
            record.state = MemberOf("TradeState", message.state)
      [] type = "OrderDetail" ->
            /\ record.order.type = MemberOf("OrderType", message.order.type)
            /\ record.order.side = MemberOf("MarketSide", message.order.side)
            /\ record.state_detail.state =
                  MemberOf("OrderState", message.state_detail.state)
            /\ record.state_detail.state_reason =
                  MemberOf("StateReason", message.state_detail.state_reason)
            /\ record.state_detail.market_actor =
                  MemberOf("MarketActor", message.state_detail.market_actor)

\* C17 as stated: Order, Trade, PublicTrade and OrderDetail.from_pb return a
\* record whatever codes the enumerated fields of the message hold, the
\* delivery duration included.
C17_UnknownCodesNeverAbort ==
    \A i \in Steps(1) :
        (conv[1].type \in DecodedRecordTypes /\ Trace[i].form = "pb")
        => /\ Trace[i + 1].form = "py"
           /\ EnumFieldsDecoded(conv[1].type, Trace[i].val, Trace[i + 1].val)

\* C17, amended: when the delivery duration of the message is one of the
\* four durations, Order, Trade, PublicTrade and OrderDetail.from_pb return
\* a record in which every enumerated field with an unknown code is
\* UNSPECIFIED; when the duration code is UNSPECIFIED or unknown they raise
\* ValueError.
C17_UnknownCodesAbortOnlyOnDuration ==
    \A i \in Steps(1) :
        (conv[1].type \in DecodedRecordTypes /\ Trace[i].form = "pb")
        => IF RecognisedDuration(WirePeriodOf(conv[1].type, Trace[i].val).duration)
           THEN /\ Trace[i + 1].form = "py"
                /\ EnumFieldsDecoded(conv[1].type, Trace[i].val, Trace[i + 1].val)
           ELSE /\ Trace[i + 1].form = "raised"
                /\ Trace[i + 1].val = ValueError

\* An Order message with an unknown market side and a recognised duration
\* was decoded.
C17_Witness ==
    /\ conv # << >>
    /\ conv[1].type = "Order"
    /\ Trace[1].form = "pb"
    /\ Trace[1].val.side = 3
    /\ Trace[1].val.delivery_period.duration = 2
    /\ Len(Trace) >= 2
    /\ Trace[2].form = "py"

\* C18: DeliveryPeriod constructed with a duration other than 5, 15, 30 or
\* 60 minutes raises ValueError, and so does DeliveryPeriod.from_pb of a
\* period whose duration code is none of the four durations.
C18_OtherDurationsRaise ==
    \A i \in Steps(1) :
        conv[1].type = "DeliveryPeriod"
        => /\ (Trace[i].form = "args" /\ Trace[i].val.minutes \notin {5, 15, 30, 60})
              => /\ Trace[i + 1].form = "raised"
                 /\ Trace[i + 1].val = ValueError
           /\ (Trace[i].form = "pb" /\ ~RecognisedDuration(Trace[i].val.duration))
              => /\ Trace[i + 1].form = "raised"
                 /\ Trace[i + 1].val = ValueError

\* A DeliveryPeriod of 20 minutes was attempted.
C18_Witness ==
    /\ conv # << >>
    /\ conv[1].type = "DeliveryPeriod"
    /\ Trace[1].form = "args"
    /\ Trace[1].val.minutes = 20
    /\ Len(Trace) = 2
    /\ Trace[2].form = "raised"

\* C19: DeliveryPeriod constructed with 5, 15, 30 or 60 minutes succeeds,
\* and encoded and decoded again it has the same start and the same
\* duration.
C19_PeriodRoundTrip ==
    \A i \in Steps(1) :
        (/\ conv[1].type = "DeliveryPeriod"
         /\ Trace[i].form = "args"
         /\ Trace[i].val.minutes \in {5, 15, 30, 60})
        => /\ Trace[i + 1].form = "py"
           /\ i + 3 <= Len(Trace)
              => /\ Trace[i + 3].form = "py"
                 /\ datetimeEq(Trace[i + 3].val.start, Trace[i + 1].val.start)
                 /\ Trace[i + 3].val.duration = Trace[i + 1].val.duration

\* C20: a value of Price, Energy, DeliveryArea, StateDetail, Order, Trade,
\* PublicTrade or OrderDetail, encoded and decoded again, equals the
\* original under the type's own equality.
C20_RecordRoundTrip ==
    \A i \in Steps(2) :
        (conv[1].type \in RecordTypes /\ Trace[i].form = "py")
        => /\ Trace[i + 2].form = "py"
           /\ TypeEq(conv[1].type, Trace[i + 2].val, Trace[i].val)

----------------------------------------------------------------------------
(* Optional fields *)

\* The optional fields of Order and of UpdateOrder that the two share
OptionalFields ==
    {"stop_price", "peak_price_delta", "display_quantity", "execution_option",
     "valid_until", "payload", "tag"}

\* C21: whenever Order.from_pb or UpdateOrder.from_pb returns, every
\* optional field that is absent from the message is None in the result
\* (not the epoch, an empty string or an empty mapping).
C21_AbsentDecodesToNone ==
    \A i \in Steps(1) :
        (/\ conv[1].type \in {"Order", "UpdateOrder"}
         /\ Trace[i].form = "pb"
         /\ Trace[i + 1].form = "py")
        => \A f \in OptionalFields :
              Trace[i].val[f] = None => Trace[i + 1].val[f] = None

\* The name of a field of a filter in the wire message
WireName(type, f) ==
    IF type \in {"GridpoolOrderFilter", "GridpoolTradeFilter"}
       /\ f \in {"order_states", "trade_states"}
    THEN "states"
    ELSE f

\* The fields of a value of the type that may be None
OptionalFieldsOf(type, value) ==
    IF type = "Order" THEN OptionalFields ELSE DOMAIN value

\* C22: to_pb of an Order, an UpdateOrder, a filter or a PaginationParams
\* returns a message in which every field that is None in the value is
\* unset.
C22_NoneIsLeftUnset ==
    \A i \in Steps(1) :
        (/\ conv[1].type \in {"Order"} \cup RequestTypes
         /\ Trace[i].form = "py")
        => /\ Trace[i + 1].form = "pb"
           /\ \A f \in OptionalFieldsOf(conv[1].type, Trace[i].val) :
                 Trace[i].val[f] = None
                 => Trace[i + 1].val[WireName(conv[1].type, f)] = None

\* A PaginationParams with both fields None was encoded.
C22_Witness ==
    /\ conv # << >>
    /\ conv[1].type = "PaginationParams"
    /\ Trace[1].form = "py"
    /\ Trace[1].val = PaginationParams(None, None)
    /\ Len(Trace) >= 2
    /\ Trace[2].form = "pb"

----------------------------------------------------------------------------
(* Timestamps of the records *)

\* The timestamp fields of Trade, OrderDetail and PublicTrade
TimeFields(type) ==
    CASE type = "Trade"       -> {"execution_time"}
      [] type = "OrderDetail" -> {"create_time", "modification_time"}
      [] type = "PublicTrade" -> {"modification_time"}

\* C25: to_pb of a Trade, an OrderDetail or a PublicTrade sets every
\* timestamp field of the message to the instant of the record's field, and
\* decoding the message gives that instant back.
C25_TimestampsAreWritten ==
    \A i \in Steps(1) :
        (/\ conv[1].type \in {"Trade", "OrderDetail", "PublicTrade"}
         /\ Trace[i].form = "py")
        => \A f \in TimeFields(conv[1].type) :
              /\ Trace[i + 1].val[f] = Some(FromDatetime(Trace[i].val[f]))
              /\ (i + 2 <= Len(Trace) /\ Trace[i + 2].form = "py")
                 => FromDatetime(Trace[i + 2].val[f]) = FromDatetime(Trace[i].val[f])

----------------------------------------------------------------------------
(* Filters and PaginationParams *)

\* C26: a GridpoolOrderFilter, GridpoolTradeFilter, PublicTradeFilter or
\* PaginationParams encoded and decoded again: from_pb returns a value (it
\* does not raise), and every field that was None is None again.
C26_NoneFieldsRoundTrip ==
    \A i \in Steps(2) :
        (/\ conv[1].type \in FilterTypes \cup {"PaginationParams"}
         /\ Trace[i].form = "py")
        => /\ Trace[i + 2].form = "py"
           /\ \A f \in DOMAIN Trace[i].val :
                 Trace[i].val[f] = None => Trace[i + 2].val[f] = None

----------------------------------------------------------------------------
(* DeliveryPeriod objects *)

\* The four durations a delivery period can have
FourDurations == {"MINUTES_5", "MINUTES_15", "MINUTES_30", "MINUTES_60"}

\* C29: every DeliveryPeriod object the constructor or from_pb returned has
\* one of the four durations (in a decoded record too), and to_pb of such an
\* object writes the code of one of the four, never the unspecified code.
C29_DurationIsOneOfFour ==
    \A i \in Steps(0) :
        /\ (conv[1].type = "DeliveryPeriod" /\ Trace[i].form = "py")
           => Trace[i].val.duration \in FourDurations
        /\ (conv[1].type = "DeliveryPeriod" /\ Trace[i].form = "pb" /\ i > 1)
           => /\ Trace[i].val.duration # UnspecifiedCode("DeliveryDuration")
              /\ MemberOf("DeliveryDuration", Trace[i].val.duration) \in FourDurations
        /\ (conv[1].type \in {"Order", "Trade", "PublicTrade"}
            /\ Trace[i].form = "py" /\ i > 1)
           => Trace[i].val.delivery_period.duration \in FourDurations

\* A DeliveryPeriod of 30 minutes was constructed and encoded.
C29_Witness ==
    /\ conv # << >>
    /\ conv[1].type = "DeliveryPeriod"
    /\ Trace[1].form = "args"
    /\ Trace[1].val.minutes = 30
    /\ Len(Trace) = 3
    /\ Trace[2].form = "py"
    /\ Trace[3].form = "pb"
    /\ Trace[3].val.duration = 3

----------------------------------------------------------------------------
(* Subscriptions with list-valued filter fields *)

\* The call was given a list for a list-valued field of its filter
GivenAList(c) ==
    CASE calls[c].kind = "gridpool_orders" ->
            calls[c].args.order_states # None
      [] calls[c].kind = "gridpool_trades" ->
            calls[c].args.trade_states # None \/ calls[c].args.trade_ids # None
      [] calls[c].kind = "public_trades" ->
            calls[c].args.states # None

\* C24: a stream_* call that was given a list for order_states,
\* trade_states, trade_ids or states returns a receiver once it has run: it
\* does not raise, and a stream is registered for its key.
C24_ListFilterSubscribes ==
    \A c \in DOMAIN calls :
        (GivenAList(c) /\ calls[c].pc # "pending")
        => /\ Returned(c)
           /\ \E e \in Streams(calls[c].kind) :
                 /\ e.key = KeyOf(calls[c])
                 /\ e.helper = ReceiverOf(c).helper

----------------------------------------------------------------------------
(* The registries over the lifetime of the Client *)

\* C27: no step removes an entry of a registry or maps its key to another
\* helper, and a stream_* call that returns for a registered key returns a
\* receiver of the helper the registry holds for the key, whatever the
\* state of that helper's upstream stream.
C27_RegistriesOnlyGrow ==
    [][/\ \A kind \in Kinds : \A e \in Streams(kind) : e \in Streams(kind)'
       /\ \A c \in DOMAIN calls :
            (/\ calls[c].pc = "pending"
             /\ calls'[c].pc = "returned"
             /\ Registered(calls[c].kind, KeyOf(calls[c])))
            => receivers'[calls'[c].rcv].helper =
                  GetItem(calls[c].kind, Streams(calls[c].kind), KeyOf(calls[c]))
      ]_vars

\* The stream of a key has ended, and a call made afterwards with the same
\* key returned a receiver of the same helper, which is still registered.
C27_Witness ==
    /\ Len(calls) = 2
    /\ Returned(1) /\ Returned(2)
    /\ Len(helpers) = 1
    /\ helpers[1].status = "ended"
    /\ ReceiverOf(1).born = "running"
    /\ ReceiverOf(2).born = "ended"
    /\ ReceiverOf(2).helper = ReceiverOf(1).helper
    /\ \E e \in Streams(calls[1].kind) : e.helper = 1

\* C28: a step in which a stream_* call runs leaves the registries of the
\* other two kinds as they were, keeps every entry of its own registry, and
\* adds at most one entry, under the key of the call; two calls of different
\* kinds never hold receivers of the same helper, also when their gridpool
\* ids are the same and their filters are equal field by field.
C28_SubscribeChangesOneEntry ==
    [][/\ \A c \in DOMAIN calls :
            (calls[c].pc = "pending" /\ calls'[c].pc # "pending") =>
               LET kind == calls[c].kind
                   key  == KeyOf(calls[c])
               IN  /\ \A k \in Kinds \ {kind} : Streams(k)' = Streams(k)
                   /\ \A e \in Streams(kind) : e \in Streams(kind)'
                   /\ \A e \in Streams(kind)' \ Streams(kind) : e.key = key
                   /\ Cardinality(Streams(kind)' \ Streams(kind)) <= 1
       /\ \A c1, c2 \in DOMAIN calls' :
            (/\ calls'[c1].pc = "returned"
             /\ calls'[c2].pc = "returned"
             /\ calls'[c1].kind # calls'[c2].kind)
            => receivers'[calls'[c1].rcv].helper # receivers'[calls'[c2].rcv].helper
      ]_vars

\* The orders and the trades of one gridpool were subscribed with filters
\* whose fields are all None: each of the two registries holds one entry,
\* and the two entries are of two helpers.
C28_Witness ==
    /\ Cardinality(gridpool_orders_streams) = 1
    /\ Cardinality(gridpool_trades_streams) = 1
    /\ public_trades_streams = {}
    /\ \E c1, c2 \in DOMAIN calls :
          /\ Returned(c1) /\ Returned(c2)
          /\ calls[c1].kind = "gridpool_orders"
          /\ calls[c2].kind = "gridpool_trades"
          /\ calls[c1].gridpool_id = calls[c2].gridpool_id
          /\ calls[c1].args = OrdersArgs(None, None, None, None, None)
          /\ calls[c2].args = TradesArgs(None, None, None, None, None)
          /\ ReceiverOf(c1).helper # ReceiverOf(c2).helper

----------------------------------------------------------------------------
(* The one-shot operations *)

\* The coroutine has finished, by returning or by raising
Finished(c) == rpcs[c].pc \in {"returned", "raised"}

\* The reply the stub gave to the one call of coroutine c
ReplyOf(c) == stub[CHOOSE i \in DOMAIN stub : stub[i].call = c].reply

\* The coroutine is an update_gridpool_order call with nothing to update,
\* which is rejected before the stub is called
RejectedUpdate(c) ==
    /\ rpcs[c].method = "UpdateGridpoolOrder"
    /\ NothingToUpdate(rpcs[c].params)

\* C23 as stated: every one-shot coroutine that has finished has called the
\* stub method of its operation exactly once, whatever its arguments were.
C23_ExactlyOneStubCall ==
    \A c \in DOMAIN rpcs :
        Finished(c)
        => /\ Cardinality(RequestsOf(c)) = 1
           /\ \A i \in RequestsOf(c) : stub[i].method = rpcs[c].method

\* C23, amended: every one-shot coroutine whose arguments pass the
\* validation of its operation calls the stub method of its operation once
\* when it runs, and never again: a coroutine that waits has made one call
\* that has no reply yet, and a finished one has made one call that got one
\* reply; when the reply was an error the coroutine has raised that error.
\* An update call with nothing to update is rejected before the stub is
\* called and has made no call.
C23_OneStubCallNoRetry ==
    \A c \in DOMAIN rpcs :
        /\ \A i \in RequestsOf(c) : stub[i].method = rpcs[c].method
        /\ rpcs[c].pc = "pending" => RequestsOf(c) = {}
        /\ rpcs[c].pc = "awaiting"
           => /\ Cardinality(RequestsOf(c)) = 1
              /\ ReplyOf(c) = None
        /\ (Finished(c) /\ RejectedUpdate(c))
           => /\ RequestsOf(c) = {}
              /\ rpcs[c].result = Some(ValueError)
        /\ (Finished(c) /\ ~RejectedUpdate(c))
           => /\ Cardinality(RequestsOf(c)) = 1
              /\ ReplyOf(c) # None
              /\ ReplyOf(c) = Some(AioRpcError)
                 => /\ rpcs[c].pc = "raised"
                    /\ rpcs[c].result = Some(AioRpcError)

\* Two calls were made: the stub failed the first, a cancel, which raised
\* the error, and answered the second, a get, which returned.
C23_Witness ==
    /\ Len(rpcs) = 2
    /\ Len(stub) = 2
    /\ rpcs[1].method = "CancelGridpoolOrder"
    /\ rpcs[1].pc = "raised"
    /\ rpcs[1].result = Some(AioRpcError)
    /\ rpcs[2].method = "GetGridpoolOrder"
    /\ rpcs[2].pc = "returned"

\* The record type a list_* operation returns
ListedType(method) ==
    CASE method = "ListGridpoolOrders" -> "OrderDetail"
      [] method = "ListGridpoolTrades" -> "Trade"
      [] method = "ListPublicTrades"   -> "PublicTrade"

\* The items of the response to a list_* call
ListedItems(method, response) ==
    CASE method = "ListGridpoolOrders" -> response.order_detail_lists
      [] method = "ListGridpoolTrades" -> response.trade_lists
      [] method = "ListPublicTrades"   -> response.public_trade_lists

\* The identity of the delivery period object of a decoded record
PeriodOid(type, record) ==
    IF type = "OrderDetail"
    THEN record.order.delivery_period.oid
    ELSE record.delivery_period.oid

====
